---- MODULE Spec2Model ----
(***************************************************************************)
(* cargo-expand: the ITEM argument (src/opts.rs), the format stage of      *)
(* do_cargo_expand (src/main.rs), the sanitizer (src/edit.rs), the         *)
(* selector (src/filter.rs) and the resilient renderer (src/unparse.rs).   *)
(*                                                                         *)
(* A syntax tree is a File [shebang, attrs, items]; every node below it is *)
(* a record [cat, kind, attrs, bad, kids, name, rename]:                   *)
(*   cat   the syn type of the node: "item" (Item), "stmt" (Stmt), "expr"  *)
(*         (Expr), "foreign" (ForeignItem), "trait" (TraitItem), "impl"    *)
(*         (ImplItem);                                                     *)
(*   kind  the enum variant.  The Verbatim variant is split in two kinds   *)
(*         by its tokens: "ellipsis" is Verbatim(quote!(...)), "verbatim"  *)
(*         is Verbatim of any other tokens;                                *)
(*   attrs the node's attribute list, each attribute given by its path;    *)
(*   bad   the node holds, outside its child nodes (a type, a pattern, a   *)
(*         generic parameter, a token run), something prettyplease panics  *)
(*         on;                                                             *)
(*   kids  the child nodes the syn Fold / VisitMut traversals reach        *)
(*         through fold_item, fold_stmt, fold_expr, fold_foreign_item,     *)
(*         fold_trait_item, fold_impl_item, in source order;               *)
(*   name  the node's ident field (None where the selector is not run);    *)
(*   rename  the rename of an extern crate item, or None.                  *)
(***************************************************************************)
EXTENDS Integers, Sequences, FiniteSets, TLC

\* Largest size of an input file.
MaxSize == 4

\* Longest ITEM argument tried on its own.
MaxArgLen == 6

\* The largest file of the runs with other threads, and the most steps the
\* other threads take on the panic hook in a run.
MaxRaceSize == 2
MaxOthers == 2

\* Longest item list of the files with implementation blocks.
MaxImpls == 2

\* The files of the runs through the whole format stage have at most
\* MaxFormatSize nodes.
MaxFormatSize == 2

None == "none"

\* Option values that hold a sequence: Some(value), Absent.
Some(value) == [some |-> TRUE, value |-> value]
Absent == [some |-> FALSE]

\* The value of a local that holds a file or a result before it is assigned.
Unset == [unset |-> TRUE]

Node(cat, kind, attrs, bad, kids) ==
    [cat |-> cat, kind |-> kind, attrs |-> attrs, bad |-> bad, kids |-> kids,
     name |-> None, rename |-> None]

Named(n, name, rename) == [n EXCEPT !.name = name, !.rename = rename]

File(shebang, attrs, items) ==
    [shebang |-> shebang, attrs |-> attrs, items |-> items]

Cats == {"item", "stmt", "expr", "foreign", "trait", "impl"}

\* The variants of each syn enum that the model draws input nodes from.
\* A module is "mod" with inline content and "mod_semi" without (mod m;); a
\* trait member is "fn", "const", "type" with a default (a body, a value, a
\* type) and "fn_required", "const_required", "type_required" without;
\* "struct" stands for the named items the selector cannot enter (Static,
\* Struct, Enum, Union, TraitAlias, ...).
Kinds(cat) ==
    CASE cat = "item"    -> {"fn", "mod", "const", "trait", "impl", "foreign_mod", "macro",
                             "mod_semi", "use", "extern_crate", "struct", "type"}
      [] cat = "stmt"    -> {"local", "expr", "item", "macro"}
      [] cat = "expr"    -> {"lit", "block", "verbatim"}
      [] cat = "foreign" -> {"fn"}
      [] cat = "trait"   -> {"fn", "macro", "fn_required", "const", "const_required",
                             "type", "type_required"}
      [] cat = "impl"    -> {"fn"}

\* The category of the children of a node: the items of a module, the
\* statements of a body or block, the initializer of a binding, the members
\* of a trait, impl or foreign block.
KidCat(cat, kind) ==
    CASE cat = "item" /\ kind = "fn"          -> "stmt"
      [] cat = "item" /\ kind = "mod"         -> "item"
      [] cat = "item" /\ kind = "const"       -> "expr"
      [] cat = "item" /\ kind = "trait"       -> "trait"
      [] cat = "item" /\ kind = "impl"        -> "impl"
      [] cat = "item" /\ kind = "foreign_mod" -> "foreign"
      [] cat = "stmt" /\ kind = "local"       -> "expr"
      [] cat = "stmt" /\ kind = "expr"        -> "expr"
      [] cat = "stmt" /\ kind = "item"        -> "item"
      [] cat = "expr" /\ kind = "block"       -> "stmt"
      [] cat = "trait" /\ kind = "fn"         -> "stmt"
      [] cat = "trait" /\ kind = "const"      -> "expr"
      [] cat = "impl" /\ kind = "fn"          -> "stmt"
      [] OTHER                                -> None

\* A constant has exactly one value expression, an expression statement
\* exactly one expression, a nested-declaration statement exactly one item.
MinKids(cat, kind) ==
    IF \/ cat \in {"item", "trait"} /\ kind = "const"
       \/ cat = "stmt" /\ kind \in {"expr", "item"}
    THEN 1 ELSE 0

ExactlyOneOrNone(cat, kind) ==
    \/ cat \in {"item", "trait"} /\ kind = "const"
    \/ cat = "stmt" /\ kind \in {"local", "expr", "item"}

\* Expr::Verbatim is a bare token stream: it has no attribute list.  A
\* Stmt::Expr and a Stmt::Item have none of their own either (the attributes
\* sit on the expression, on the item).
HasAttrs(cat, kind) ==
    /\ kind \notin {"verbatim", "ellipsis"}
    /\ ~(cat = "stmt" /\ kind \in {"expr", "item"})

(***************************************************************************)
(* The input files: every file of size at most MaxSize in three families,  *)
(*   "render"    any node may be bad, no attributes;                       *)
(*   "sanitize"  macro items, macro statements and verbatim expressions    *)
(*               occur, attribute lists vary, no node is bad;              *)
(*   "select"    the items and trait members the selector tells apart,     *)
(*               named a or b, with bodies of plain bindings; no node is   *)
(*               bad.                                                      *)
(* The size of a file counts one for each node and one more for each bad   *)
(* node, each node with attributes, each impl or foreign block, each name  *)
(* b, each rename, each of the rarer kinds of the "select" family, and a   *)
(* file header (shebang, inner attributes).                                *)
(***************************************************************************)
Idents == {"a", "b"}

SelectKinds(cat) ==
    CASE cat = "item"  -> {"fn", "mod", "mod_semi", "const", "trait", "impl",
                           "foreign_mod", "use", "extern_crate", "struct", "macro"}
      [] cat = "trait" -> {"fn", "fn_required", "const", "const_required",
                           "type", "type_required", "macro"}
      [] cat = "stmt"  -> {"local"}
      [] cat = "expr"  -> {"lit"}
      [] OTHER         -> {}

PlainKinds(cat) ==
    CASE cat = "item"  -> {"fn", "mod", "const", "trait", "impl", "foreign_mod", "macro"}
      [] cat = "trait" -> {"fn", "macro"}
      [] OTHER         -> Kinds(cat)

\* The "format" family: inline modules named a, macro_rules items, and use
\* items, which hold the first segment of their path in name.
FormatKinds(cat) == IF cat = "item" THEN {"mod", "use", "macro"} ELSE {}

KindsIn(cat, mode) ==
    CASE mode = "sanitize" -> PlainKinds(cat)
      [] mode = "render"   -> PlainKinds(cat) \ {"macro", "verbatim"}
      [] mode = "select"   -> SelectKinds(cat)
      [] mode = "format"   -> FormatKinds(cat)

AttrChoices == {<<"doc">>, <<"doc", "inline", "doc">>}

\* const DOLLAR_CRATE_PLACEHOLDER: &str = "Ξcrate";
DOLLAR_CRATE_PLACEHOLDER == "Ξcrate"

\* Whether a node of the kind has an ident field.
HasIdent(cat, kind) ==
    \/ cat = "item" /\ kind \in {"fn", "mod", "mod_semi", "const", "trait", "extern_crate",
                                 "struct", "type", "macro"}
    \/ cat = "trait" /\ kind # "macro"

\* The decorations of a node of the family: [attrs, bad, name, rename, cost].
Decorations(cat, kind, mode) ==
    LET base == IF \/ cat = "item" /\ kind \in {"impl", "foreign_mod"}
                   \/ /\ mode = "select"
                      /\ \/ cat = "item" /\ kind \in {"mod_semi", "use", "extern_crate",
                                                       "macro"}
                         \/ cat = "trait" /\ kind \in {"type", "type_required", "macro"}
                THEN 2 ELSE 1
        plain(attrs, bad, cost) ==
            [attrs |-> attrs, bad |-> bad, name |-> None, rename |-> None, cost |-> cost]
        named(name, rename) ==
            [attrs |-> <<>>, bad |-> FALSE, name |-> name, rename |-> rename,
             cost |-> base + (IF name = "b" THEN 1 ELSE 0)
                          + (IF rename = None THEN 0 ELSE 1)]
    IN  IF mode = "format"
        THEN { [attrs |-> <<>>, bad |-> FALSE, name |-> name, rename |-> None, cost |-> 1] :
                 name \in CASE kind = "use"   -> {DOLLAR_CRATE_PLACEHOLDER, "x"}
                             [] kind = "macro" -> {None}
                             [] OTHER          -> {"a"} }
        ELSE IF mode = "select"
        THEN IF ~HasIdent(cat, kind) THEN {plain(<<>>, FALSE, base)}
             ELSE { named(name, rename) :
                      name \in Idents,
                      rename \in IF kind = "extern_crate" THEN Idents \cup {None}
                                 ELSE {None} }
        ELSE {plain(<<>>, FALSE, base)}
             \cup (IF mode = "render" THEN {plain(<<>>, TRUE, base + 1)} ELSE {})
             \cup (IF /\ mode = "sanitize"
                      /\ \/ cat = "stmt" /\ kind \in {"local", "macro"}
                         \/ cat = "expr" /\ kind \in {"lit", "block"}
                         \/ cat = "item" /\ kind = "fn"
                   THEN {plain(a, FALSE, base + 1) : a \in AttrChoices}
                   ELSE {})

RECURSIVE Compositions(_), ForestOf(_, _, _)

\* The sequences of positive sizes that add up to n.
Compositions(n) ==
    IF n = 0 THEN {<<>>}
    ELSE UNION { { <<k>> \o c : c \in Compositions(n - k) } : k \in 1..n }

\* The sequences of trees of category cat whose sizes are those of sizes;
\* table[k] holds the trees of size exactly k, by category.
ForestOf(table, cat, sizes) ==
    IF sizes = <<>> THEN {<<>>}
    ELSE { <<t>> \o f : t \in table[Head(sizes)][cat],
                        f \in ForestOf(table, cat, Tail(sizes)) }

\* The trees of category cat of size exactly n, from the smaller ones.
TreesOf(table, cat, n, mode) ==
    UNION { UNION { LET kc == KidCat(cat, kind)
                        m == n - d.cost
                        most == IF ExactlyOneOrNone(cat, kind) THEN 1 ELSE m
                        shapes == IF kc = None THEN {<<>>}
                                  ELSE { c \in Compositions(m) :
                                           Len(c) \in MinKids(cat, kind)..most }
                    IN  IF m < 0 THEN {}
                        ELSE { Named(Node(cat, kind, d.attrs, d.bad, kids), d.name, d.rename) :
                                 kids \in UNION { ForestOf(table, kc, c) : c \in shapes } }
                    : d \in Decorations(cat, kind, mode) }
            : kind \in KindsIn(cat, mode) }

RECURSIVE TreeTable(_, _)

\* <<the trees of size 1, ..., the trees of size n>>, each a record by category.
TreeTable(n, mode) ==
    IF n = 0 THEN <<>>
    ELSE LET smaller == TreeTable(n - 1, mode)
         IN  Append(smaller, [item    |-> TreesOf(smaller, "item", n, mode),
                              stmt    |-> TreesOf(smaller, "stmt", n, mode),
                              expr    |-> TreesOf(smaller, "expr", n, mode),
                              foreign |-> TreesOf(smaller, "foreign", n, mode),
                              trait   |-> TreesOf(smaller, "trait", n, mode),
                              impl    |-> TreesOf(smaller, "impl", n, mode)])

Modes == {"render", "sanitize", "select"}
RenderTrees == TreeTable(MaxSize, "render")
SanitizeTrees == TreeTable(MaxSize, "sanitize")
SelectTrees == TreeTable(MaxSize, "select")
FormatTrees == TreeTable(MaxFormatSize, "format")

Trees(mode) ==
    CASE mode = "render"   -> RenderTrees
      [] mode = "sanitize" -> SanitizeTrees
      [] mode = "select"   -> SelectTrees
      [] mode = "format"   -> FormatTrees

\* File headers, with what they add to the size of a file: none; a shebang
\* and a printable inner attribute; an inner attribute prettyplease panics on.
Heads == { [shebang |-> None, attrs |-> <<>>, cost |-> 0],
           [shebang |-> "#!/usr/bin/env run", attrs |-> <<"feature">>, cost |-> 1],
           [shebang |-> None, attrs |-> <<"unprintable">>, cost |-> 1] }

\* The shapes of an item list of size at most n.
ItemShapes(n) == UNION { Compositions(k) : k \in 0..n }

\* file is one of the input files of the family, of size at most n.
IsInputFile(file, mode, n) ==
    \E h \in Heads :
        \E sizes \in ItemShapes(n - h.cost) :
            \E items \in ForestOf(Trees(mode), "item", sizes) :
                file = File(h.shebang, h.attrs, items)

\* The ITEM arguments given with the files of the "select" family: paths of
\* idents; a path adds to the size one for each segment after the first and
\* one for each b.
SegmentCost(segments) ==
    Len(segments) - 1 + Cardinality({i \in DOMAIN segments : segments[i] = "b"})

SelectorChoices ==
    { segments \in UNION { [1..l -> Idents] : l \in 1..(MaxSize + 1) } :
        SegmentCost(segments) <= MaxSize }

RECURSIVE Chars(_)

\* The path as the user types it.
Chars(segments) ==
    IF Len(segments) = 1 THEN <<segments[1]>>
    ELSE <<segments[1], ":", ":">> \o Chars(Tail(segments))

\* The ITEM arguments tried on their own, with an empty file: every string
\* of at most MaxArgLen characters.
ArgStrings == UNION { [1..l -> {"a", ":", "-"}] : l \in 0..MaxArgLen }

(***************************************************************************)
(* Tree helpers.                                                           *)
(***************************************************************************)
RECURSIVE GetAt(_, _), SetAt(_, _, _), Concat(_)

\* The node of list `nodes` at path p (a non-empty sequence of indices).
GetAt(nodes, p) ==
    IF Len(p) = 1 THEN nodes[p[1]] ELSE GetAt(nodes[p[1]].kids, Tail(p))

\* List `nodes` with the node at path p replaced by v.
SetAt(nodes, p, v) ==
    IF Len(p) = 1
    THEN [nodes EXCEPT ![p[1]] = v]
    ELSE [nodes EXCEPT ![p[1]] = [@ EXCEPT !.kids = SetAt(@, Tail(p), v)]]

Concat(seqs) == IF seqs = <<>> THEN <<>> ELSE Head(seqs) \o Concat(Tail(seqs))

RECURSIVE Paths(_), CountNodes(_)

\* Every path into list `nodes`.
Paths(nodes) ==
    UNION { {<<i>>} \cup { <<i>> \o q : q \in Paths(nodes[i].kids) } : i \in DOMAIN nodes }

CountNodes(nodes) ==
    IF nodes = <<>> THEN 0
    ELSE 1 + CountNodes(Head(nodes).kids) + CountNodes(Tail(nodes))


(***************************************************************************)
(* src/edit.rs: sanitize.                                                  *)
(***************************************************************************)
IsItemMacro(n) == n.cat = "item" /\ n.kind = "macro"

\* Mutant of remove_macro_rules_from_vec_item: an element is skipped after
\* each removal, as when removing by index while iterating.
RECURSIVE remove_macro_rules_skipping(_)
remove_macro_rules_skipping(items) ==
    IF items = <<>> THEN <<>>
    ELSE IF IsItemMacro(Head(items))
         THEN IF Len(items) = 1 THEN <<>>
              ELSE <<items[2]>> \o remove_macro_rules_skipping(SubSeq(items, 3, Len(items)))
         ELSE <<Head(items)>> \o remove_macro_rules_skipping(Tail(items))

\* Mutant of remove_macro_rules_from_vec_item: an impl block marked
\* automatically_derived is dropped as well.
remove_macro_rules_and_derived(items) ==
    SelectSeq(items, LAMBDA item :
                ~IsItemMacro(item)
                /\ ~(item.kind = "impl" /\ \E a \in DOMAIN item.attrs :
                                              item.attrs[a] = "automatically_derived"))

\* items.retain(|item| !matches!(item, Item::Macro(_)))
remove_macro_rules_from_vec_item(items) ==
    SelectSeq(items, LAMBDA item : ~IsItemMacro(item))

\* Mutant of remove_doc_attributes: only the first doc attribute is removed.
RECURSIVE remove_first_doc_attribute(_)
remove_first_doc_attribute(attrs) ==
    IF attrs = <<>> THEN <<>>
    ELSE IF Head(attrs) = "doc" THEN Tail(attrs)
         ELSE <<Head(attrs)>> \o remove_first_doc_attribute(Tail(attrs))

\* attrs.retain(|attr| !attr.path().is_ident("doc"))
remove_doc_attributes(attrs) ==
    SelectSeq(attrs, LAMBDA attr : attr # "doc")

\* Mutant of attrs_mut_is_some: the Expr::Block arm is missing from the match.
attrs_mut_without_block(e) == e.kind \notin {"verbatim", "ellipsis", "block"}

\* attrs_mut: Some(attrs) for every variant that has an attribute list, None
\* for Expr::Verbatim.
attrs_mut_is_some(e) == e.kind \notin {"verbatim", "ellipsis"}

\* Mutant of retain_stmts: macro statements are dropped as well.
retain_stmts_and_macro_stmts(stmts) ==
    SelectSeq(stmts, LAMBDA stmt : /\ ~(stmt.kind = "item" /\ IsItemMacro(stmt.kids[1]))
                                   /\ stmt.kind # "macro")

\* The part of visit_block_mut before it recurses:
\* stmts.retain(|stmt| !matches!(stmt, Stmt::Item(Item::Macro(_))))
retain_stmts(stmts) ==
    SelectSeq(stmts, LAMBDA stmt : ~(stmt.kind = "item" /\ IsItemMacro(stmt.kids[1])))

\* The part of visit_stmt_mut before it recurses.
strip_stmt(i) ==
    CASE i.kind = "local" -> [i EXCEPT !.attrs = remove_doc_attributes(@)]
      [] i.kind = "expr"  ->
            IF attrs_mut_is_some(i.kids[1])
            THEN [i EXCEPT !.kids[1].attrs = remove_doc_attributes(@)]
            ELSE i
      [] i.kind = "item"  -> i
      [] i.kind = "macro" -> [i EXCEPT !.attrs = remove_doc_attributes(@)]

RECURSIVE visit_mut(_)

\* Sanitize's traversal of one node: the three overridden visit methods, and
\* syn's default traversal everywhere else.
visit_mut(n) ==
    LET each(kids) == [k \in DOMAIN kids |-> visit_mut(kids[k])]
    IN  CASE n.cat = "item" /\ n.kind = "mod" ->
                \* visit_item_mod_mut
                [n EXCEPT !.kids = each(remove_macro_rules_from_vec_item(n.kids))]
          [] KidCat(n.cat, n.kind) = "stmt" ->
                \* visit_block_mut, on the body or block of n
                [n EXCEPT !.kids = each(retain_stmts(n.kids))]
          [] n.cat = "stmt" ->
                \* visit_stmt_mut
                LET i == strip_stmt(n) IN [i EXCEPT !.kids = each(i.kids)]
          [] OTHER ->
                [n EXCEPT !.kids = each(n.kids)]

sanitize(file) ==
    LET items == remove_macro_rules_from_vec_item(file.items)
    IN  [file EXCEPT !.items = [k \in DOMAIN items |-> visit_mut(items[k])]]

(***************************************************************************)
(* src/filter.rs: Filter, its FromStr and Display.  A string is a sequence *)
(* of one-character strings.                                               *)
(***************************************************************************)
RECURSIVE Str(_), split(_), Display(_)

\* The characters of a sequence as one string.
Str(chars) == IF chars = <<>> THEN "" ELSE Head(chars) \o Str(Tail(chars))

starts_with(s, prefix) == Len(s) >= Len(prefix) /\ SubSeq(s, 1, Len(prefix)) = prefix

\* input.split("::"): the pieces between the occurrences of "::", found from
\* the left and not overlapping.
split(input) ==
    LET at == {i \in 1..(Len(input) - 1) : input[i] = ":" /\ input[i + 1] = ":"}
    IN  IF at = {} THEN <<input>>
        ELSE LET i == CHOOSE i \in at : \A j \in at : i <= j
             IN  <<SubSeq(input, 1, i - 1)>> \o split(SubSeq(input, i + 2, Len(input)))

\* syn::parse_str::<Ident>(segment).is_ok()
is_ident(segment) ==
    segment # <<>> /\ \A i \in DOMAIN segment : segment[i] \in {"a", "b"}

\* Mutant of from_str: pieces that are not identifiers are skipped.
from_str_skipping(input) ==
    LET pieces == SelectSeq(split(input), is_ident)
    IN  IF pieces = <<>> THEN [ok |-> FALSE, err |-> <<"empty path">>]
        ELSE [ok |-> TRUE, segments |-> [i \in DOMAIN pieces |-> Str(pieces[i])]]

\* impl FromStr for Filter
from_str(input) ==
    LET pieces == split(input)
        wrong == {i \in DOMAIN pieces : ~is_ident(pieces[i])}
    IN  IF wrong # {}
        THEN LET i == CHOOSE i \in wrong : \A j \in wrong : i <= j
             IN  [ok |-> FALSE, err |-> <<Str(pieces[i]), "is not an identifier">>]
        ELSE IF pieces = <<>> THEN [ok |-> FALSE, err |-> <<"empty path">>]
        ELSE [ok |-> TRUE, segments |-> [i \in DOMAIN pieces |-> Str(pieces[i])]]

\* impl Display for Filter
Display(segments) ==
    IF segments = <<>> THEN ""
    ELSE IF Len(segments) = 1 THEN segments[1]
    ELSE segments[1] \o "::" \o Display(Tail(segments))

(***************************************************************************)
(* src/filter.rs: filter, enter_item, name_of_item.                        *)
(***************************************************************************)
\* Mutant of name_of_item: an extern crate is known by its original name.
name_of_item_ignoring_rename(item) ==
    IF item.kind \in {"use", "foreign_mod", "impl", "verbatim", "ellipsis"} THEN None
    ELSE item.name

\* name_of_item: Some(ident) as the ident, None as None.
name_of_item(item) ==
    CASE item.kind = "extern_crate" ->
            IF item.rename # None THEN item.rename ELSE item.name
      [] item.kind \in {"use", "foreign_mod", "impl", "verbatim", "ellipsis"} -> None
      [] OTHER -> item.name

\* The closure of enter_item's filter_map over the members of a trait:
\* <<the item made of the member>>, or <<>> for None.
item_of_trait_item(trait_item) ==
    CASE trait_item.kind = "const" ->
            <<Named(Node("item", "const", trait_item.attrs, trait_item.bad, trait_item.kids),
                    trait_item.name, None)>>
      [] trait_item.kind = "fn" ->
            <<Named(Node("item", "fn", trait_item.attrs, trait_item.bad, trait_item.kids),
                    trait_item.name, None)>>
      [] trait_item.kind = "type" ->
            <<Named(Node("item", "type", trait_item.attrs, trait_item.bad, <<>>),
                    trait_item.name, None)>>
      [] OTHER -> <<>>

\* Mutant of enter_item: a trait cannot be entered.
enter_item_modules_only(item) ==
    IF item.kind = "mod" THEN item.kids ELSE <<>>

enter_item(item) ==
    CASE item.kind = "mod"   -> item.kids
      [] item.kind = "trait" ->
            Concat([k \in DOMAIN item.kids |-> item_of_trait_item(item.kids[k])])
      [] OTHER -> <<>>

\* Mutant of enter_segment: an item that has nothing to enter stays in the list.
enter_segment_keeping_leaves(items, segment) ==
    SelectSeq(Concat([k \in DOMAIN items |->
                        IF enter_item(items[k]) = <<>> THEN <<items[k]>>
                        ELSE enter_item(items[k])]),
              LAMBDA item : name_of_item(item) # None /\ name_of_item(item) = segment)

\* One turn of the loop of filter: items.into_iter().flat_map(enter_item)
\* .filter(|item| name_of_item(item) == Some(&segment)).collect()
enter_segment(items, segment) ==
    SelectSeq(Concat([k \in DOMAIN items |-> enter_item(items[k])]),
              LAMBDA item : name_of_item(item) # None /\ name_of_item(item) = segment)

RECURSIVE enter_segments(_, _)

\* for segment in filter.segments { items = ... }
enter_segments(items, segments) ==
    IF segments = <<>> THEN items
    ELSE enter_segments(enter_segment(items, Head(segments)), Tail(segments))

\* let root_mod = ItemMod { ident: "root", content: Some((_, items)), .. }
root_mod(items) == Named(Node("item", "mod", <<>>, FALSE, items), "root", None)

\* Mutant of unwrap: the one item left is kept as it is.
unwrap_never(items) == items

\* if items.len() == 1 { items = match items.pop().unwrap() { .. } }
unwrap(items) ==
    IF Len(items) = 1 /\ items[1].kind = "mod" THEN items[1].kids ELSE items

\* pub fn filter(syntax_tree: &mut File, filter: Filter)
filter(syntax_tree, segments) ==
    File(None, <<>>, unwrap(enter_segments(<<root_mod(syntax_tree.items)>>, segments)))

(***************************************************************************)
(* src/opts.rs: parse_selector, the value parser of the ITEM argument.     *)
(***************************************************************************)
\* Mutant of parse_selector: a leading "::" is left in place.
parse_selector_keeping_prefix(s) == from_str(s)

parse_selector(s) ==
    IF starts_with(s, <<":", ":">>) THEN from_str(SubSeq(s, 3, Len(s))) ELSE from_str(s)

(***************************************************************************)
(* The render primitive, prettyplease::unparse: deterministic, and it       *)
(* panics on a file that holds something it cannot print.                  *)
(***************************************************************************)
RECURSIVE NodePanics(_), NodeText(_)

NodePanics(n) == n.bad \/ \E k \in DOMAIN n.kids : NodePanics(n.kids[k])

unparse_panics(file) ==
    \/ \E a \in DOMAIN file.attrs : file.attrs[a] = "unprintable"
    \/ \E k \in DOMAIN file.items : NodePanics(file.items[k])

NodeText(n) ==
    IF n.kind = "ellipsis"
    THEN <<"...">>
    ELSE [a \in DOMAIN n.attrs |-> "#[" \o n.attrs[a] \o "]"]
         \o <<n.kind>>
         \o (IF n.name = None THEN <<>> ELSE <<n.name>>)
         \o <<"{">>
         \o Concat([k \in DOMAIN n.kids |-> NodeText(n.kids[k])])
         \o <<"}">>

\* The text prettyplease::unparse returns when it does not panic.
unparse_text(file) ==
    (IF file.shebang = None THEN <<>> ELSE <<file.shebang>>)
    \o [a \in DOMAIN file.attrs |-> "#![" \o file.attrs[a] \o "]"]
    \o Concat([k \in DOMAIN file.items |-> NodeText(file.items[k])])

\* quote!(#syntax_tree).to_string(): the tokens of the file, whatever it holds.
quote(file) == unparse_text(file)

\* Mutant of replace: the text is left as it is.
replace_nothing(text, from, to) == text

\* str::replace on a text of tokens: each from becomes to.
replace(text, from, to) == [i \in DOMAIN text |-> IF text[i] = from THEN to ELSE text[i]]

(***************************************************************************)
(* src/unparse.rs: the wrappers and placeholders of UnparseMaximal.        *)
(***************************************************************************)
\* The one-item file each fold method renders its node in.
WrapperFile(n) ==
    File(None, <<>>,
         CASE n.cat = "item"    -> <<n>>
           [] n.cat = "stmt"    -> <<Node("item", "fn", <<>>, FALSE, <<n>>)>>
           [] n.cat = "expr"    -> <<Node("item", "const", <<>>, FALSE, <<n>>)>>
           [] n.cat = "foreign" -> <<Node("item", "foreign_mod", <<>>, FALSE, <<n>>)>>
           [] n.cat = "trait"   -> <<Node("item", "trait", <<>>, FALSE, <<n>>)>>
           [] n.cat = "impl"    -> <<Node("item", "impl", <<>>, FALSE, <<n>>)>>)

\* What each fold method returns when both attempts panicked.
Placeholder(cat) ==
    IF cat = "stmt"
    THEN Node("stmt", "item", <<>>, FALSE, <<Node("item", "ellipsis", <<>>, FALSE, <<>>)>>)
    ELSE Node(cat, "ellipsis", <<>>, FALSE, <<>>)

\* panic::catch_unwind(|| prettyplease::unparse(&file)).is_ok()
wrapper_ok(n) == ~unparse_panics(WrapperFile(n))


(***************************************************************************)
(* State.                                                                  *)
(***************************************************************************)
VARIABLES
    pc,                  \* where do_cargo_expand / ignore_panic / unparse_maximal stands
    parsed,              \* the file as syn::parse_file returned it
    syntax_tree,         \* do_cargo_expand's syntax_tree
    hook,                \* the process-wide panic hook
    original_hook,       \* ignore_panic's original_hook
    hopefully_null_hook, \* ignore_panic's hopefully_null_hook
    redacted,            \* the clone UnparseMaximal folds
    stack,               \* the fold calls in progress: [path, next child to fold]
    result,              \* what catch_unwind(f) returned in ignore_panic
    events,              \* every call of the render primitive made by the renderer
    stage,               \* do_cargo_expand's stage
    arg,                 \* the ITEM argument on the command line: Some(string), Absent
    item,                \* args.item: Some(segments of the Filter), Absent
    stdout,              \* what was written to standard output
    stderr,              \* what was written to standard error
    exit_code,           \* the status the process ends with, once it has
    others,              \* what other threads of the process did to the panic hook
    world,               \* the flags, the configuration and the environment variables
    calls,               \* what the run asked of its environment, with the answers
    dirs                 \* the directories the Xdg strategy resolved

vars == <<pc, parsed, syntax_tree, hook, original_hook, hopefully_null_hook,
          redacted, stack, result, events, stage, arg, item, stdout, stderr, exit_code,
          others, world, calls, dirs>>

\* The command line and the output streams.
io == <<arg, item, stdout, stderr, exit_code>>

\* The command line and the file syn::parse_file returned: no ITEM and a
\* file of the "render" or "sanitize" family; a path and a file of the
\* "select" family; any string as ITEM and the empty file.
IsInput(a, file) ==
    \/ /\ a = Absent
       /\ \E mode \in {"render", "sanitize"} : IsInputFile(file, mode, MaxSize)
    \/ \E segments \in SelectorChoices :
          /\ a = Some(Chars(segments))
          /\ IsInputFile(file, "select", MaxSize - SegmentCost(segments))
    \/ /\ \E s \in ArgStrings : a = Some(s)
       /\ file = File(None, <<>>, <<>>)

\* The environment variables the Xdg strategy reads.
XdgVars == {"XDG_CONFIG_HOME", "XDG_DATA_HOME", "XDG_CACHE_HOME", "XDG_STATE_HOME",
            "XDG_RUNTIME_DIR"}

\* What the runs are given when nothing else is said: no --ugly, no
\* rustfmt = true in the configuration, an expanded source that
\* syn::parse_file accepts and that holds no $crate, none of the XDG
\* variables set.  dollar is the set of the places of the expanded source
\* that hold $crate.
DefaultWorld ==
    [ugly |-> FALSE, rustfmt |-> FALSE, parses |-> TRUE, dollar |-> {},
     home |-> <<"/", "h">>, env |-> [v \in XdgVars |-> Absent]]

\* do_cargo_expand is entered: nothing is parsed, written or taken yet.
Entry ==
    /\ pc = "parse_args"
    /\ item = Absent
    /\ stdout = <<>>
    /\ stderr = <<>>
    /\ exit_code = None
    /\ hook = "entry_hook"
    /\ original_hook = None
    /\ hopefully_null_hook = None
    /\ redacted = Unset
    /\ stack = <<>>
    /\ result = Unset
    /\ events = <<>>
    /\ stage = "QuestionablyFormatted"
    /\ others = <<>>
    /\ calls = <<>>
    /\ dirs = Unset

Init ==
    /\ Entry
    /\ world = DefaultWorld
    /\ IsInput(arg, parsed)
    /\ syntax_tree = parsed

(***************************************************************************)
(* src/opts.rs: the ITEM argument goes through parse_selector; on an error *)
(* the argument parser reports it and the process ends with status 2.      *)
(***************************************************************************)
ParseArgs ==
    /\ pc = "parse_args"
    /\ UNCHANGED <<others, world, calls, dirs>>
    /\ LET parsed_item == IF arg = Absent THEN [ok |-> TRUE] ELSE parse_selector(arg.value)
       IN  /\ item' = IF arg # Absent /\ parsed_item.ok
                      THEN Some(parsed_item.segments)
                      ELSE Absent
           /\ stderr' = IF parsed_item.ok THEN stderr
                        ELSE Append(stderr, <<"error">> \o parsed_item.err)
           /\ exit_code' = IF parsed_item.ok THEN exit_code ELSE 2
           /\ pc' = IF parsed_item.ok THEN "check_args" ELSE "usage_error"
    /\ UNCHANGED <<parsed, syntax_tree, hook, original_hook, hopefully_null_hook, redacted,
                   stack, result, events, stage, arg, stdout>>

(***************************************************************************)
(* src/main.rs, do_cargo_expand, from the check of --ugly to the parse of  *)
(* the expanded source.                                                    *)
(***************************************************************************)
\* if let Some(item) = &args.item { if args.ugly { .. return Ok(1) } }
\* if config.rustfmt { rustfmt = which_rustfmt(); if rustfmt.is_none() { .. return Ok(1) } }
CheckArgs ==
    /\ pc = "check_args"
    /\ UNCHANGED <<others, world, dirs>>
    /\ \E found \in BOOLEAN :
          LET refused == item # Absent /\ world.ugly
              asked == ~refused /\ world.rustfmt
              missing == asked /\ ~found
          IN  /\ calls' = IF asked
                          THEN Append(calls, [cmd |-> "which_rustfmt", found |-> found])
                          ELSE calls
              /\ stderr' = CASE refused -> Append(stderr, <<"ERROR: cannot expand single item (",
                                                           Display(item.value), ") in ugly mode.">>)
                             [] missing -> Append(stderr, <<"ERROR: rustfmt is not found">>)
                             [] OTHER   -> stderr
              /\ exit_code' = IF refused \/ missing THEN 1 ELSE exit_code
              /\ pc' = CASE refused -> "ugly_error"
                         [] missing -> "rustfmt_missing"
                         [] OTHER   -> "run_cargo"
    /\ UNCHANGED <<parsed, syntax_tree, hook, original_hook, hopefully_null_hook, redacted,
                   stack, result, events, stage, arg, item, stdout>>

\* What cargo leaves behind: no output file, an empty one (with status 0 or
\* with a status of its own), the expanded source.
CargoOutcomes == {"no_outfile", "empty", "empty_failed", "expanded"}

\* let code = filter_err(&mut cmd)?; .. the checks of the output file; with
\* --ugly the content goes to the printer as it is.
RunCargo ==
    /\ pc = "run_cargo"
    /\ UNCHANGED <<others, world, dirs>>
    /\ \E outcome \in CargoOutcomes :
          /\ calls' = Append(calls, [cmd |-> "cargo", outcome |-> outcome])
          /\ stderr' = IF outcome \in {"empty", "empty_failed"}
                       THEN Append(stderr, <<"ERROR: rustc produced no expanded output">>)
                       ELSE stderr
          /\ exit_code' = CASE outcome = "expanded"     -> exit_code
                            [] outcome = "empty_failed" -> 101
                            [] OTHER                    -> 1
          /\ pc' = CASE outcome = "no_outfile" -> "no_outfile"
                     [] outcome = "expanded"   -> IF world.ugly THEN "content" ELSE "parse_file"
                     [] OTHER                  -> "no_output"
    /\ UNCHANGED <<parsed, syntax_tree, hook, original_hook, hopefully_null_hook, redacted,
                   stack, result, events, stage, arg, item, stdout>>

\* The expanded source: the tokens of the file it stands for, with $crate
\* at the places of dollar.
questionably_formatted ==
    LET tokens == quote(parsed)
    IN  [i \in DOMAIN tokens |-> IF i \in world.dollar THEN "$crate" ELSE tokens[i]]

\* let wip = questionably_formatted.replace("$crate", DOLLAR_CRATE_PLACEHOLDER);
wip == replace(questionably_formatted, "$crate", DOLLAR_CRATE_PLACEHOLDER)

\* if let Ok(mut syntax_tree) = syn::parse_file(&wip): the file whose tokens
\* are those of wip, when syn accepts them.
ParseFile ==
    /\ pc = "parse_file"
    /\ UNCHANGED <<others, world, calls, dirs>>
    /\ IF world.parses
       THEN /\ quote(parsed) = wip
            /\ pc' = "sanitize"
       ELSE pc' = "staged"
    /\ UNCHANGED io
    /\ UNCHANGED <<parsed, syntax_tree, hook, original_hook, hopefully_null_hook, redacted,
                   stack, result, events, stage>>

(***************************************************************************)
(* src/main.rs, do_cargo_expand: edit::sanitize(&mut syntax_tree)          *)
(***************************************************************************)
\* Mutant of Sanitize: the file goes on as it was parsed.
Sanitize_skipped ==
    /\ pc = "sanitize"
    /\ pc' = "filter"
    /\ UNCHANGED <<others, world, calls, dirs>>
    /\ UNCHANGED io
    /\ UNCHANGED <<parsed, syntax_tree, hook, original_hook, hopefully_null_hook, redacted,
                   stack, result, events, stage>>

Sanitize ==
    /\ pc = "sanitize"
    /\ UNCHANGED <<others, world, calls, dirs>>
    /\ syntax_tree' = sanitize(syntax_tree)
    /\ pc' = "filter"
    /\ UNCHANGED io
    /\ UNCHANGED <<parsed, hook, original_hook, hopefully_null_hook, redacted, stack,
                   result, events, stage>>

(***************************************************************************)
(* src/main.rs, do_cargo_expand: if let Some(filter) = args.item { .. }    *)
(* The list of the selection is the one filter of src/filter.rs makes.     *)
(***************************************************************************)
\* filter.apply_to(&file)
apply_to(file, segments) == filter(file, segments).items

\* args.item is None: nothing is selected.
NoFilter ==
    /\ pc = "filter"
    /\ UNCHANGED <<others, world, calls, dirs>>
    /\ item = Absent
    /\ pc' = IF world.rustfmt THEN "unformatted" ELSE "ignore_panic"
    /\ UNCHANGED <<parsed, syntax_tree, hook, original_hook, hopefully_null_hook, redacted,
                   stack, result, events, stage>>
    /\ UNCHANGED io

\* Mutant of header_after_filter: the shebang and the inner attributes stay.
header_kept(file) == [shebang |-> file.shebang, attrs |-> file.attrs]

\* syntax_tree.shebang = None; syntax_tree.attrs.clear();
header_after_filter(file) == [shebang |-> None, attrs |-> <<>>]

\* Mutant of Filter: an empty selection is rendered like any other.
Filter_without_check ==
    /\ pc = "filter"
    /\ UNCHANGED <<others, world, calls, dirs>>
    /\ item # Absent
    /\ LET items == apply_to(syntax_tree, item.value)
           header == header_after_filter(syntax_tree)
       IN  syntax_tree' = File(header.shebang, header.attrs, items)
    /\ pc' = IF world.rustfmt THEN "unformatted" ELSE "ignore_panic"
    /\ UNCHANGED <<parsed, hook, original_hook, hopefully_null_hook, redacted, stack,
                   result, events, stage, arg, item, stdout, stderr, exit_code>>

\* The selection takes the place of the file's items; an empty one ends the
\* run with the warning and status 1.
Filter ==
    /\ pc = "filter"
    /\ UNCHANGED <<others, world, calls, dirs>>
    /\ item # Absent
    /\ LET items == apply_to(syntax_tree, item.value)
           header == header_after_filter(syntax_tree)
       IN  /\ syntax_tree' = File(header.shebang, header.attrs, items)
           /\ IF items = <<>>
              THEN /\ stderr' = Append(stderr, <<"WARNING: no such item: ", Display(item.value)>>)
                   /\ exit_code' = 1
                   /\ pc' = "no_such_item"
              ELSE /\ pc' = IF world.rustfmt THEN "unformatted" ELSE "ignore_panic"
                   /\ UNCHANGED <<stderr, exit_code>>
    /\ UNCHANGED <<parsed, hook, original_hook, hopefully_null_hook, redacted, stack,
                   result, events, stage, arg, item, stdout>>

(***************************************************************************)
(* src/main.rs, ignore_panic, before the closure runs.                     *)
(***************************************************************************)
\* let original_hook = panic::take_hook();
TakeHook ==
    /\ pc = "ignore_panic"
    /\ UNCHANGED <<others, world, calls, dirs>>
    /\ original_hook' = hook
    /\ hook' = "default_hook"
    /\ pc' = "set_hook"
    /\ UNCHANGED io
    /\ UNCHANGED <<parsed, syntax_tree, hopefully_null_hook, redacted, stack, result,
                   events, stage>>

\* panic::set_hook(null_hook);
SetNullHook ==
    /\ pc = "set_hook"
    /\ UNCHANGED <<others, world, calls, dirs>>
    /\ hook' = "null_hook"
    /\ pc' = "unparse_maximal"
    /\ UNCHANGED io
    /\ UNCHANGED <<parsed, syntax_tree, original_hook, hopefully_null_hook, redacted,
                   stack, result, events, stage>>

(***************************************************************************)
(* src/unparse.rs, unparse_maximal and the fold of UnparseMaximal.         *)
(***************************************************************************)
Ok(text) == [ok |-> TRUE, text |-> text]
Err == [ok |-> FALSE, text |-> <<>>]

Top == stack[Len(stack)]

\* Mutant of KidsAt: a fold method does not go into the children of its node.
KidsAtNoDescent(file, path) ==
    IF path = <<>> THEN file.items ELSE <<>>

\* Mutant of KidsAt: the last child of a node is not handed to a fold method.
KidsAtButLast(file, path) ==
    LET kids == IF path = <<>> THEN file.items ELSE GetAt(file.items, path).kids
    IN  IF path = <<>> THEN kids ELSE SubSeq(kids, 1, Len(kids) - 1)

\* The children of the node a fold call is at (of the file, for fold_file):
\* what fold::fold_item, fold::fold_stmt, ... hand to the fold methods.
KidsAt(file, path) ==
    IF path = <<>> THEN file.items ELSE GetAt(file.items, path).kids

\* Mutant of whole_file_ok: the fold is run whatever the first render did.
whole_file_never_ok(file) == FALSE

\* if let Ok(formatted) = panic::catch_unwind(|| prettyplease::unparse(syntax_tree))
whole_file_ok(file) == ~unparse_panics(file)

\* The first lines of unparse_maximal: the whole file is rendered, and on a
\* panic the clone of the file is handed to fold_file.
UnparseWhole ==
    /\ pc = "unparse_maximal"
    /\ UNCHANGED <<others, world, calls, dirs>>
    /\ LET ok == whole_file_ok(syntax_tree)
       IN  /\ events' = Append(events, [ev |-> "whole", path |-> <<>>, ok |-> ok])
           /\ IF ok
              THEN /\ result' = Ok(unparse_text(syntax_tree))
                   /\ pc' = "take_back"
                   /\ UNCHANGED <<redacted, stack>>
              ELSE /\ redacted' = syntax_tree
                   /\ stack' = <<[path |-> <<>>, next |-> 1]>>
                   /\ pc' = "fold"
                   /\ UNCHANGED result
    /\ UNCHANGED io
    /\ UNCHANGED <<parsed, syntax_tree, hook, original_hook, hopefully_null_hook, stage>>

\* A fold method is called on the next child of the node being resolved and
\* makes its first attempt: on success it returns the child as it is, on a
\* panic it goes on into syn's fold of the child's own children.
FoldEnter ==
    /\ pc = "fold"
    /\ UNCHANGED <<others, world, calls, dirs>>
    /\ Top.next <= Len(KidsAt(redacted, Top.path))
    /\ LET child == Top.path \o <<Top.next>>
           ok == wrapper_ok(GetAt(redacted.items, child))
           caller == [Top EXCEPT !.next = @ + 1]
           rest == SubSeq(stack, 1, Len(stack) - 1)
       IN  /\ events' = Append(events, [ev |-> "first", path |-> child, ok |-> ok])
           /\ stack' = IF ok
                       THEN Append(rest, caller)
                       ELSE Append(Append(rest, caller), [path |-> child, next |-> 1])
    /\ UNCHANGED io
    /\ UNCHANGED <<pc, parsed, syntax_tree, hook, original_hook, hopefully_null_hook,
                   redacted, result, stage>>

\* Mutants of second_attempt: the node is kept though it still panics; the
\* node is replaced though it renders; the node is returned without the
\* children that were folded.
second_attempt_never_placeholder(n, ok) == n
second_attempt_always_placeholder(n, ok) == Placeholder(n.cat)
second_attempt_drops_children(n, ok) ==
    IF ok THEN [n EXCEPT !.kids = <<>>] ELSE Placeholder(n.cat)
\* Mutant of second_attempt: the two outcomes are taken for each other.
second_attempt_inverted(n, ok) == IF ok THEN Placeholder(n.cat) ELSE n

\* What a fold method returns after its second attempt on the node rebuilt
\* from its folded children.
second_attempt(n, ok) == IF ok THEN n ELSE Placeholder(n.cat)

\* Mutant of return_from_fold: the second attempt is repeated until it succeeds.
retry_until_ok(stk, ok) == IF ok THEN SubSeq(stk, 1, Len(stk) - 1) ELSE stk

\* The fold method returns after its second attempt, whatever its outcome.
return_from_fold(stk, ok) == SubSeq(stk, 1, Len(stk) - 1)

\* All children of the node are folded: the fold method makes its second
\* attempt and returns.
FoldExit ==
    /\ pc = "fold"
    /\ UNCHANGED <<others, world, calls, dirs>>
    /\ Top.path # <<>>
    /\ Top.next > Len(KidsAt(redacted, Top.path))
    /\ LET n == GetAt(redacted.items, Top.path)
           ok == wrapper_ok(n)
       IN  /\ events' = Append(events, [ev |-> "second", path |-> Top.path, ok |-> ok])
           /\ redacted' = [redacted EXCEPT
                             !.items = SetAt(@, Top.path, second_attempt(n, ok))]
           /\ stack' = return_from_fold(stack, ok)
    /\ UNCHANGED io
    /\ UNCHANGED <<pc, parsed, syntax_tree, hook, original_hook, hopefully_null_hook,
                   result, stage>>

\* fold_file has returned: prettyplease::unparse(&redacted), not under a
\* catch_unwind of unparse_maximal's own.  A panic here unwinds to the
\* catch_unwind of ignore_panic.
FinalUnparse ==
    /\ pc = "fold"
    /\ UNCHANGED <<others, world, calls, dirs>>
    /\ Top.path = <<>>
    /\ Top.next > Len(redacted.items)
    /\ LET ok == ~unparse_panics(redacted)
       IN  /\ events' = Append(events, [ev |-> "final", path |-> <<>>, ok |-> ok])
           /\ result' = IF ok THEN Ok(unparse_text(redacted)) ELSE Err
    /\ stack' = <<>>
    /\ pc' = "take_back"
    /\ UNCHANGED io
    /\ UNCHANGED <<parsed, syntax_tree, hook, original_hook, hopefully_null_hook,
                   redacted, stage>>

(***************************************************************************)
(* src/main.rs, ignore_panic, after catch_unwind(f) returned.              *)
(***************************************************************************)
\* let hopefully_null_hook = panic::take_hook();
TakeHookBack ==
    /\ pc = "take_back"
    /\ UNCHANGED <<others, world, calls, dirs>>
    /\ hopefully_null_hook' = hook
    /\ hook' = "default_hook"
    /\ pc' = "restore"
    /\ UNCHANGED io
    /\ UNCHANGED <<parsed, syntax_tree, original_hook, redacted, stack, result, events,
                   stage>>

\* Mutant of RestoreHook: the hook is set back only when the closure returned.
RestoreHook_after_ok ==
    /\ pc = "restore"
    /\ UNCHANGED <<others, world, calls, dirs>>
    /\ hook' = IF result.ok THEN original_hook ELSE hook
    /\ pc' = "sanity_check"
    /\ UNCHANGED io
    /\ UNCHANGED <<parsed, syntax_tree, original_hook, hopefully_null_hook, redacted,
                   stack, result, events, stage>>

\* Mutant of RestoreHook: the hook is set back only when the null hook came back.
RestoreHook_unless_replaced ==
    /\ pc = "restore"
    /\ UNCHANGED <<others, world, calls, dirs>>
    /\ hook' = IF hopefully_null_hook = "null_hook" THEN original_hook ELSE hook
    /\ pc' = "sanity_check"
    /\ UNCHANGED io
    /\ UNCHANGED <<parsed, syntax_tree, original_hook, hopefully_null_hook, redacted,
                   stack, result, events, stage>>

\* panic::set_hook(original_hook);
RestoreHook ==
    /\ pc = "restore"
    /\ UNCHANGED <<others, world, calls, dirs>>
    /\ hook' = original_hook
    /\ pc' = "sanity_check"
    /\ UNCHANGED io
    /\ UNCHANGED <<parsed, syntax_tree, original_hook, hopefully_null_hook, redacted,
                   stack, result, events, stage>>

\* Mutant of SanityCheck: the hook taken back is not looked at.
SanityCheck_skipped ==
    /\ pc = "sanity_check"
    /\ pc' = "returned"
    /\ UNCHANGED <<others, world, calls, dirs>>
    /\ UNCHANGED io
    /\ UNCHANGED <<parsed, syntax_tree, hook, original_hook, hopefully_null_hook,
                   redacted, stack, result, events, stage>>

\* if sanity_check != &*hopefully_null_hook { panic!(...) }  result
SanityCheck ==
    /\ pc = "sanity_check"
    /\ UNCHANGED <<others, world, calls, dirs>>
    /\ pc' = IF hopefully_null_hook # "null_hook" THEN "fatal" ELSE "returned"
    /\ UNCHANGED io
    /\ UNCHANGED <<parsed, syntax_tree, hook, original_hook, hopefully_null_hook,
                   redacted, stack, result, events, stage>>

\* do_cargo_expand: if !config.rustfmt { if let Ok(formatted) =
\* ignore_panic(..) { stage = Formatted } }
\* if let QuestionablyFormatted = stage { stage = Unformatted(quote!(..)) }
UseResult ==
    /\ pc \in {"returned", "unformatted"}
    /\ UNCHANGED <<others, world, calls, dirs>>
    /\ stage' = IF pc = "returned" /\ result.ok THEN "Formatted" ELSE "Unformatted"
    /\ pc' = "staged"
    /\ UNCHANGED io
    /\ UNCHANGED <<parsed, syntax_tree, hook, original_hook, hopefully_null_hook,
                   redacted, stack, result, events>>

\* The editions rustfmt is tried with, in their order.
Editions == <<"2021", "2018", "2015">>

\* Mutant of to_rustfmt: a text that is formatted already goes to rustfmt too.
to_rustfmt_even_formatted ==
    CASE stage = "Formatted"   -> Some(result.text)
      [] stage = "Unformatted" -> Some(quote(syntax_tree))
      [] OTHER                 -> Some(wip)

\* let to_rustfmt = match &stage { .. }
to_rustfmt ==
    CASE stage = "Formatted"   -> Absent
      [] stage = "Unformatted" -> Some(quote(syntax_tree))
      [] OTHER                 -> Some(wip)

\* if let Some(unformatted) = to_rustfmt { if let Some(rustfmt) =
\* rustfmt.or_else(which_rustfmt) { for edition in .. } }: rustfmt is run
\* on the text with one edition after the other until it succeeds; its
\* output holds the tokens it was given.
Rustfmt ==
    /\ pc = "staged"
    /\ UNCHANGED <<others, world, dirs>>
    /\ LET unformatted == to_rustfmt
       IN  IF unformatted = Absent
           THEN UNCHANGED <<calls, stage>>
           ELSE \E found \in IF world.rustfmt THEN {TRUE} ELSE BOOLEAN :
                \E accepted \in 0..Len(Editions) :
                   LET asked == IF world.rustfmt THEN <<>>
                                ELSE <<[cmd |-> "which_rustfmt", found |-> found]>>
                       last == IF accepted = 0 THEN Len(Editions) ELSE accepted
                       runs == [e \in 1..last |->
                                  [cmd |-> "rustfmt", edition |-> Editions[e],
                                   input |-> unformatted.value, ok |-> e = accepted]]
                   IN  /\ calls' = calls \o asked \o (IF found THEN runs ELSE <<>>)
                       /\ stage' = IF found /\ accepted # 0 THEN "Formatted" ELSE stage
    /\ pc' = "content"
    /\ UNCHANGED io
    /\ UNCHANGED <<parsed, syntax_tree, hook, original_hook, hopefully_null_hook, redacted,
                   stack, result, events>>

\* Stage::Formatted(formatted): the text of unparse_maximal, or the output
\* of the run of rustfmt that succeeded.
formatted ==
    IF result # Unset /\ result.ok
    THEN [from |-> "prettyplease", text |-> result.text]
    ELSE [from |-> "rustfmt", text |-> calls[Len(calls)].input]

\* Mutant of WriteOutput: a formatted text is written as the formatter left it.
WriteOutput_as_formatted ==
    /\ pc = "content"
    /\ UNCHANGED <<others, world, calls, dirs>>
    /\ LET content ==
              IF ~world.ugly /\ stage = "Formatted"
              THEN [from |-> formatted.from, text |-> formatted.text]
              ELSE [from |-> "rustc", text |-> questionably_formatted]
       IN  stdout' = Append(stdout, content)
    /\ exit_code' = 0
    /\ pc' = "done"
    /\ UNCHANGED <<parsed, syntax_tree, hook, original_hook, hopefully_null_hook, redacted,
                   stack, result, events, stage, arg, item, stderr>>

\* content = match stage { Formatted(formatted) => formatted.replace(
\* DOLLAR_CRATE_PLACEHOLDER, "$crate"), Unformatted(_) | QuestionablyFormatted
\* => questionably_formatted }; with --ugly the content is what cargo left.
\* The content is written to standard output and the status is 0.
WriteOutput ==
    /\ pc = "content"
    /\ UNCHANGED <<others, world, calls, dirs>>
    /\ LET content ==
              IF ~world.ugly /\ stage = "Formatted"
              THEN [from |-> formatted.from,
                    text |-> replace(formatted.text, DOLLAR_CRATE_PLACEHOLDER, "$crate")]
              ELSE [from |-> "rustc", text |-> questionably_formatted]
       IN  stdout' = Append(stdout, content)
    /\ exit_code' = 0
    /\ pc' = "done"
    /\ UNCHANGED <<parsed, syntax_tree, hook, original_hook, hopefully_null_hook, redacted,
                   stack, result, events, stage, arg, item, stderr>>

Next ==
    \/ ParseArgs
    \/ CheckArgs
    \/ RunCargo
    \/ ParseFile
    \/ Sanitize
    \/ NoFilter
    \/ Filter
    \/ TakeHook
    \/ SetNullHook
    \/ UnparseWhole
    \/ FoldEnter
    \/ FoldExit
    \/ FinalUnparse
    \/ TakeHookBack
    \/ RestoreHook
    \/ SanityCheck
    \/ UseResult
    \/ Rustfmt
    \/ WriteOutput

Spec == Init /\ [][Next]_vars

(***************************************************************************)
(* The runs without an ITEM argument, and the runs with one.  The files    *)
(* given with an ITEM hold nothing prettyplease panics on, so the fold of  *)
(* unparse_maximal has no part in those runs.                              *)
(***************************************************************************)
InitNoItem ==
    /\ Entry
    /\ world = DefaultWorld
    /\ arg = Absent
    /\ \E mode \in {"render", "sanitize"} : IsInputFile(parsed, mode, MaxSize)
    /\ syntax_tree = parsed

NextNoItem ==
    \/ ParseArgs
    \/ CheckArgs
    \/ RunCargo
    \/ ParseFile
    \/ Sanitize
    \/ NoFilter
    \/ TakeHook
    \/ SetNullHook
    \/ UnparseWhole
    \/ FoldEnter
    \/ FoldExit
    \/ FinalUnparse
    \/ TakeHookBack
    \/ RestoreHook
    \/ SanityCheck
    \/ UseResult
    \/ Rustfmt
    \/ WriteOutput

SpecNoItem == InitNoItem /\ [][NextNoItem]_vars

InitItem ==
    /\ Entry
    /\ world = DefaultWorld
    /\ \/ \E segments \in SelectorChoices :
             /\ arg = Some(Chars(segments))
             /\ IsInputFile(parsed, "select", MaxSize - SegmentCost(segments))
       \/ /\ \E s \in ArgStrings : arg = Some(s)
          /\ parsed = File(None, <<>>, <<>>)
    /\ syntax_tree = parsed

NextItem ==
    \/ ParseArgs
    \/ CheckArgs
    \/ RunCargo
    \/ ParseFile
    \/ Sanitize
    \/ Filter
    \/ TakeHook
    \/ SetNullHook
    \/ UnparseWhole
    \/ TakeHookBack
    \/ RestoreHook
    \/ SanityCheck
    \/ UseResult
    \/ Rustfmt
    \/ WriteOutput

SpecItem == InitItem /\ [][NextItem]_vars

(***************************************************************************)
(* The runs through the whole format stage: with and without --ugly, with  *)
(* and without rustfmt = true in the configuration, on a source that syn   *)
(* accepts or rejects, with $crate at any of the places where the file has *)
(* the placeholder, without an ITEM or with the ITEM a or a::a.            *)
(***************************************************************************)
FormatArgs == {Absent, Some(<<"a">>), Some(<<"a", ":", ":", "a">>)}

InitFormat ==
    /\ Entry
    /\ arg \in FormatArgs
    /\ IsInputFile(parsed, "format", MaxFormatSize)
    /\ syntax_tree = parsed
    /\ \E ugly, rustfmt, parses \in BOOLEAN :
       \E dollar \in SUBSET {i \in DOMAIN quote(parsed) :
                                quote(parsed)[i] = DOLLAR_CRATE_PLACEHOLDER} :
          world = [DefaultWorld EXCEPT !.ugly = ugly, !.rustfmt = rustfmt,
                                       !.parses = parses, !.dollar = dollar]

NextFormat ==
    \/ ParseArgs
    \/ CheckArgs
    \/ RunCargo
    \/ ParseFile
    \/ Sanitize
    \/ NoFilter
    \/ Filter
    \/ TakeHook
    \/ SetNullHook
    \/ UnparseWhole
    \/ FoldEnter
    \/ FinalUnparse
    \/ TakeHookBack
    \/ RestoreHook
    \/ SanityCheck
    \/ UseResult
    \/ Rustfmt
    \/ WriteOutput

SpecFormat == InitFormat /\ [][NextFormat]_vars

(***************************************************************************)
(* The runs on files of implementation blocks: each item is an impl block, *)
(* with or without the attribute #[automatically_derived], a macro_rules   *)
(* item, or an inline module of such items.                                *)
(***************************************************************************)
ImplBlock(marked) ==
    Node("item", "impl", IF marked THEN <<"automatically_derived">> ELSE <<>>, FALSE, <<>>)

ImplLeaves == {ImplBlock(TRUE), ImplBlock(FALSE), Node("item", "macro", <<>>, FALSE, <<>>)}

ImplItems ==
    ImplLeaves
    \cup { Node("item", "mod", <<>>, FALSE, kids) :
             kids \in UNION { [1..l -> ImplLeaves] : l \in 0..(MaxImpls - 1) } }

InitImpls ==
    /\ Entry
    /\ world = DefaultWorld
    /\ arg = Absent
    /\ \E l \in 0..MaxImpls : \E items \in [1..l -> ImplItems] :
          parsed = File(None, <<>>, items)
    /\ syntax_tree = parsed

NextImpls ==
    \/ ParseArgs
    \/ CheckArgs
    \/ RunCargo
    \/ ParseFile
    \/ Sanitize
    \/ NoFilter
    \/ TakeHook
    \/ SetNullHook
    \/ UnparseWhole
    \/ TakeHookBack
    \/ RestoreHook
    \/ SanityCheck
    \/ UseResult
    \/ Rustfmt
    \/ WriteOutput

SpecImpls == InitImpls /\ [][NextImpls]_vars

(***************************************************************************)
(* Runs with other threads.  std::panic::take_hook and set_hook work on    *)
(* one process-wide hook, so a thread other than the one in ignore_panic   *)
(* may call them between any two lines of src/main.rs 655-661.  others     *)
(* records each such call: where ignore_panic stood, what the call was,    *)
(* the hook it took out and the hook it left in place.                     *)
(***************************************************************************)
\* ignore_panic has taken the hook (line 655) and not yet set it back
\* (line 661).
BetweenSaveAndRestore ==
    pc \in {"set_hook", "unparse_maximal", "fold", "take_back", "restore"}

OtherCall(op, installed) ==
    [at |-> pc, op |-> op, taken |-> hook, installed |-> installed]

\* Another thread: panic::set_hook(Box::new(..)) with a hook of its own.
OtherSetHook ==
    /\ BetweenSaveAndRestore
    /\ UNCHANGED <<world, calls, dirs>>
    /\ Len(others) < MaxOthers
    /\ hook' = "other_hook"
    /\ others' = Append(others, OtherCall("set", "other_hook"))
    /\ UNCHANGED io
    /\ UNCHANGED <<pc, parsed, syntax_tree, original_hook, hopefully_null_hook, redacted,
                   stack, result, events, stage>>

\* Another thread: let taken = panic::take_hook();
OtherTakeHook ==
    /\ BetweenSaveAndRestore
    /\ UNCHANGED <<world, calls, dirs>>
    /\ Len(others) < MaxOthers
    /\ hook' = "default_hook"
    /\ others' = Append(others, OtherCall("take", "default_hook"))
    /\ UNCHANGED io
    /\ UNCHANGED <<pc, parsed, syntax_tree, original_hook, hopefully_null_hook, redacted,
                   stack, result, events, stage>>

\* Another thread: panic::set_hook(taken) with a hook it took before.
OtherPutBack ==
    /\ BetweenSaveAndRestore
    /\ UNCHANGED <<world, calls, dirs>>
    /\ Len(others) < MaxOthers
    /\ \E i \in DOMAIN others :
          /\ others[i].op = "take"
          /\ hook' = others[i].taken
          /\ others' = Append(others, OtherCall("put_back", others[i].taken))
    /\ UNCHANGED io
    /\ UNCHANGED <<pc, parsed, syntax_tree, original_hook, hopefully_null_hook, redacted,
                   stack, result, events, stage>>

\* The runs with other threads are tried without an ITEM, on the files of
\* the "render" family of size at most MaxRaceSize.
InitRace ==
    /\ Entry
    /\ world = DefaultWorld
    /\ arg = Absent
    /\ IsInputFile(parsed, "render", MaxRaceSize)
    /\ syntax_tree = parsed

NextRace ==
    \/ ParseArgs
    \/ CheckArgs
    \/ RunCargo
    \/ ParseFile
    \/ Sanitize
    \/ NoFilter
    \/ TakeHook
    \/ SetNullHook
    \/ UnparseWhole
    \/ FoldEnter
    \/ FoldExit
    \/ FinalUnparse
    \/ TakeHookBack
    \/ RestoreHook
    \/ SanityCheck
    \/ UseResult
    \/ Rustfmt
    \/ WriteOutput
    \/ OtherSetHook
    \/ OtherTakeHook
    \/ OtherPutBack

SpecRace == InitRace /\ [][NextRace]_vars


(***************************************************************************)
(* Vocabulary of the properties.                                           *)
(***************************************************************************)
\* ignore_panic has come back to do_cargo_expand, or has raised the fatal
\* "race condition on std::panic hook".
\* The run has not come to the end of edit::sanitize, or never will.
BeforeSanitize ==
    {"parse_args", "usage_error", "check_args", "ugly_error", "rustfmt_missing", "run_cargo",
     "no_outfile", "no_output", "parse_file", "sanitize"}

Returned == pc \in {"returned", "staged", "content", "done"}
Fatal == pc = "fatal"

\* unparse_maximal is over (its fold, if any, too).
RenderOver ==
    pc \in {"take_back", "restore", "sanity_check", "returned", "staged", "content", "done", "fatal"}

FoldRan == redacted # Unset

HeaderUnprintable(file) == \E a \in DOMAIN file.attrs : file.attrs[a] = "unprintable"

HasEvent(ev, path, ok) ==
    \E e \in DOMAIN events : events[e] = [ev |-> ev, path |-> path, ok |-> ok]

CountEvents(ev, path) ==
    Cardinality({e \in DOMAIN events : events[e].ev = ev /\ events[e].path = path})

RECURSIVE Redacts(_, _), Ellipses(_), BadPaths(_)

\* List `red` is list `orig` with whole nodes replaced by placeholders.
Redacts(orig, red) ==
    /\ Len(red) = Len(orig)
    /\ \A k \in DOMAIN orig :
          \/ red[k] = orig[k]
          \/ red[k] = Placeholder(orig[k].cat)
          \/ /\ red[k].cat = orig[k].cat
             /\ red[k].kind = orig[k].kind
             /\ red[k].attrs = orig[k].attrs
             /\ red[k].bad = orig[k].bad
             /\ red[k].name = orig[k].name
             /\ red[k].rename = orig[k].rename
             /\ Redacts(orig[k].kids, red[k].kids)

\* The number of Verbatim(...) nodes in a list.
Ellipses(nodes) ==
    IF nodes = <<>> THEN 0
    ELSE (IF Head(nodes).kind = "ellipsis" THEN 1 ELSE 0)
         + Ellipses(Head(nodes).kids) + Ellipses(Tail(nodes))

\* The paths of the bad nodes of a list.
BadPaths(nodes) ==
    UNION { (IF nodes[k].bad THEN {<<k>>} ELSE {})
            \cup { <<k>> \o q : q \in BadPaths(nodes[k].kids) }
            : k \in DOMAIN nodes }

IsPrefix(p, q) == Len(p) <= Len(q) /\ SubSeq(q, 1, Len(p)) = p

(***************************************************************************)
(* C1, as claimed: calling unparse_maximal through ignore_panic always     *)
(* returns Ok(text); no panic of the primitive escapes the renderer and    *)
(* the fatal condition is never raised.                                    *)
(***************************************************************************)
C1_AlwaysOk == (Returned \/ Fatal) => (~Fatal /\ result.ok)

(***************************************************************************)
(* C1, amended: ignore_panic never raises the fatal condition, and what it *)
(* returns is Ok(text) unless the file's own inner attributes are what the *)
(* primitive panics on: the fold replaces nodes only, so the last render   *)
(* panics again and ignore_panic returns Err.                              *)
(***************************************************************************)
C1_OkUnlessHeaderUnprintable ==
    /\ ~Fatal
    /\ Returned => (result.ok <=> ~HeaderUnprintable(syntax_tree))

\* The fold ran, replaced a node, and the text came back.
C1_Witness ==
    /\ Returned /\ result.ok /\ FoldRan
    /\ Ellipses(redacted.items) > 0

(***************************************************************************)
(* C2: a node stands replaced by a Placeholder only if its first attempt   *)
(* panicked and its second attempt, made after all its children were       *)
(* folded, panicked again; a node one of whose attempts succeeded is not   *)
(* replaced by the fold call on it.                                        *)
(***************************************************************************)
C2_PlaceholderOnlyAfterTwoPanics ==
    [][ (FoldRan /\ redacted' # redacted) =>
            LET last == events'[Len(events')]
                p == last.path
                n == GetAt(redacted.items, p)
            IN  /\ Len(events') = Len(events) + 1
                /\ last = [ev |-> "second", path |-> p, ok |-> FALSE]
                /\ HasEvent("first", p, FALSE)
                /\ ~HasEvent("first", p, TRUE)
                /\ ~HasEvent("second", p, TRUE)
                /\ \A k \in DOMAIN n.kids : CountEvents("first", p \o <<k>>) = 1
                /\ redacted' = [redacted EXCEPT !.items = SetAt(@, p, Placeholder(n.cat))]
      ]_vars

\* The fold call on a node placed a Placeholder.
PlacedAt(p) == HasEvent("second", p, FALSE)

\* A node was rebuilt from folded children and kept (its second attempt
\* succeeded) after a child of it was replaced.
C2_Witness ==
    /\ RenderOver /\ FoldRan
    /\ \E p \in Paths(redacted.items) :
          /\ Len(p) > 1
          /\ PlacedAt(p)
          /\ HasEvent("second", SubSeq(p, 1, Len(p) - 1), TRUE)

(***************************************************************************)
(* C3: when exactly one node L is bad, L has no children and the file      *)
(* header is printable, the folded file holds exactly one Placeholder, it  *)
(* stands at L's position, and the fold placed none at an ancestor of L.   *)
(***************************************************************************)
SingleBadLeaf(L) ==
    /\ ~HeaderUnprintable(syntax_tree)
    /\ BadPaths(syntax_tree.items) = {L}
    /\ GetAt(syntax_tree.items, L).kids = <<>>

C3_SingleBadLeaf ==
    RenderOver =>
        \A L \in Paths(syntax_tree.items) :
            SingleBadLeaf(L) =>
                /\ FoldRan
                /\ Ellipses(redacted.items) = 1
                /\ L \in Paths(redacted.items)
                /\ GetAt(redacted.items, L) = Placeholder(GetAt(syntax_tree.items, L).cat)
                /\ \A q \in Paths(syntax_tree.items) : PlacedAt(q) <=> q = L
                /\ \A i \in 1..(Len(L) - 1) :
                      LET q == SubSeq(L, 1, i)
                      IN  /\ GetAt(redacted.items, q).kind = GetAt(syntax_tree.items, q).kind
                          /\ HasEvent("second", q, TRUE)

\* The bad leaf lies under two renderable ancestors.
C3_Witness ==
    /\ RenderOver
    /\ \E L \in Paths(syntax_tree.items) : SingleBadLeaf(L) /\ Len(L) >= 3

(***************************************************************************)
(* C4: the folded file is the input file with whole nodes replaced by      *)
(* Placeholders and nothing else changed; a node whose first attempt       *)
(* succeeded stays as it was, where it was, unless the fold placed a       *)
(* Placeholder at an ancestor; unparse_maximal leaves the caller's file    *)
(* as it was.                                                              *)
(***************************************************************************)
InRenderer == pc \in {"unparse_maximal", "fold"}

C4_OnlyPlaceholders ==
    /\ [](FoldRan =>
            /\ redacted.shebang = syntax_tree.shebang
            /\ redacted.attrs = syntax_tree.attrs
            /\ Redacts(syntax_tree.items, redacted.items)
            /\ \A p \in Paths(syntax_tree.items) :
                  (/\ HasEvent("first", p, TRUE)
                   /\ \A i \in 1..Len(p) : ~PlacedAt(SubSeq(p, 1, i)))
                  => /\ p \in Paths(redacted.items)
                     /\ GetAt(redacted.items, p) = GetAt(syntax_tree.items, p))
    /\ [][InRenderer => syntax_tree' = syntax_tree]_vars

\* In one list, a node was replaced and a sibling that rendered at once was kept.
C4_Witness ==
    /\ RenderOver /\ FoldRan
    /\ \E p, q \in Paths(syntax_tree.items) :
          /\ Len(p) = Len(q) /\ Len(p) > 1 /\ p # q
          /\ SubSeq(p, 1, Len(p) - 1) = SubSeq(q, 1, Len(q) - 1)
          /\ PlacedAt(p)
          /\ HasEvent("first", q, TRUE)
          /\ GetAt(redacted.items, q) = GetAt(syntax_tree.items, q)

(***************************************************************************)
(* C5: when the primitive renders the whole file, unparse_maximal returns  *)
(* that text; the fold is not run, no wrapper is rendered and no           *)
(* Placeholder is made.                                                    *)
(***************************************************************************)
C5_FastPath ==
    (pc \notin BeforeSanitize \cup {"filter", "no_such_item"}
        /\ ~unparse_panics(syntax_tree)) =>
        /\ ~FoldRan
        /\ stack = <<>>
        /\ \A e \in DOMAIN events : events[e] = [ev |-> "whole", path |-> <<>>, ok |-> TRUE]
        /\ RenderOver => /\ Len(events) = 1
                         /\ result = Ok(unparse_text(syntax_tree))

\* A file with items was rendered on the fast path.
C5_Witness ==
    /\ RenderOver /\ ~unparse_panics(syntax_tree)
    /\ syntax_tree.items # <<>>
    /\ result.ok

(***************************************************************************)
(* C6: the fold terminates.  Every fold call in progress is on a child of  *)
(* the node of the call below it; no node is passed to the fold twice;     *)
(* each folded node has at most one first and one second attempt; the      *)
(* primitive is called at most twice per node of the file, and twice for   *)
(* the file; from the entry of ignore_panic to its return or its fatal     *)
(* condition the run never stops.                                          *)
(***************************************************************************)
C6_FoldTerminates ==
    /\ \A i \in 2..Len(stack) :
          stack[i].path = stack[i - 1].path \o <<stack[i - 1].next - 1>>
    /\ \A e \in DOMAIN events :
          /\ events[e].ev \in {"first", "second"} =>
                /\ events[e].path \in Paths(syntax_tree.items)
                /\ CountEvents(events[e].ev, events[e].path) = 1
          /\ events[e].ev = "second" => HasEvent("first", events[e].path, FALSE)
    /\ Len(events) <= 2 * CountNodes(syntax_tree.items) + 2
    /\ pc \in {"ignore_panic", "set_hook", "unparse_maximal", "fold", "take_back", "restore",
               "sanity_check"} => ENABLED Next

\* A fold three calls deep has returned.
C6_Witness ==
    /\ RenderOver
    /\ \E e \in DOMAIN events : events[e].ev = "second" /\ Len(events[e].path) >= 3

(***************************************************************************)
(* src/unparse.rs read as a function: the value unparse_maximal computes.  *)
(***************************************************************************)
RECURSIVE fold_node(_)

\* fold_item, fold_stmt, fold_expr, fold_foreign_item, fold_trait_item,
\* fold_impl_item: the node, the node rebuilt from its folded children, or a
\* Placeholder.
fold_node(n) ==
    IF wrapper_ok(n) THEN n
    ELSE LET rebuilt == [n EXCEPT !.kids = [k \in DOMAIN n.kids |-> fold_node(n.kids[k])]]
         IN  IF wrapper_ok(rebuilt) THEN rebuilt ELSE Placeholder(n.cat)

\* UnparseMaximal.fold_file(syntax_tree.clone())
fold_file(file) ==
    [file EXCEPT !.items = [k \in DOMAIN file.items |-> fold_node(file.items[k])]]

\* What catch_unwind(|| unparse_maximal(&file)) evaluates to.
unparse_maximal_value(file) ==
    IF ~unparse_panics(file) THEN Ok(unparse_text(file))
    ELSE IF unparse_panics(fold_file(file)) THEN Err
         ELSE Ok(unparse_text(fold_file(file)))

(***************************************************************************)
(* C7: the renderer is deterministic.  What a run returns is the value of  *)
(* one function of the file it was given (so two runs on the same file     *)
(* return the same text, with the same Placeholders), and the folded file  *)
(* is that function's folded file; nothing else a run reads is left        *)
(* changed by a run: the fold's stack is empty again.                      *)
(***************************************************************************)
C7_ResultIsFunctionOfInput ==
    RenderOver =>
        /\ result = unparse_maximal_value(syntax_tree)
        /\ FoldRan => redacted = fold_file(syntax_tree)
        /\ stack = <<>>

\* A run that folded, kept one node and replaced another, and returned text.
C7_Witness ==
    /\ Returned /\ result.ok /\ FoldRan
    /\ Ellipses(redacted.items) > 0
    /\ \E p \in Paths(syntax_tree.items) : HasEvent("first", p, TRUE)


(***************************************************************************)
(* C8: after sanitize no Item::Macro is left anywhere in the tree: not in  *)
(* the file's items, not in a module at any depth, not as a statement of   *)
(* any body or block, the bodies of trait and impl members included.       *)
(***************************************************************************)
RECURSIVE MacroPaths(_), StmtDocPaths(_)

\* The paths of the Item::Macro nodes of a list.
MacroPaths(nodes) ==
    UNION { (IF IsItemMacro(nodes[k]) THEN {<<k>>} ELSE {})
            \cup { <<k>> \o q : q \in MacroPaths(nodes[k].kids) }
            : k \in DOMAIN nodes }

Sanitized == world.parses /\ ~world.ugly /\ pc \notin BeforeSanitize

C8_NoMacroLeft == Sanitized => MacroPaths(syntax_tree.items) = {}

\* The parsed file held macros in a module or block, two of them in one list.
C8_Witness ==
    /\ Sanitized
    /\ \E p, q \in MacroPaths(parsed.items) :
          /\ Len(p) >= 2 /\ Len(q) = Len(p) /\ p # q
          /\ SubSeq(p, 1, Len(p) - 1) = SubSeq(q, 1, Len(q) - 1)

(***************************************************************************)
(* C9: after sanitize no local binding, and no expression of an expression *)
(* statement, at any depth, carries a doc attribute.                       *)
(***************************************************************************)
HasDoc(attrs) == \E a \in DOMAIN attrs : attrs[a] = "doc"

\* The paths of the local and expression statements of a list whose binding
\* or expression carries a doc attribute.
StmtDocPaths(nodes) ==
    UNION { (IF /\ nodes[k].cat = "stmt"
                /\ \/ nodes[k].kind = "local" /\ HasDoc(nodes[k].attrs)
                   \/ nodes[k].kind = "expr" /\ HasDoc(nodes[k].kids[1].attrs)
             THEN {<<k>>} ELSE {})
            \cup { <<k>> \o q : q \in StmtDocPaths(nodes[k].kids) }
            : k \in DOMAIN nodes }

C9_NoStmtDocLeft == Sanitized => StmtDocPaths(syntax_tree.items) = {}

\* The parsed file held an expression statement whose block expression
\* carried doc attributes.
C9_Witness ==
    /\ Sanitized
    /\ \E p \in StmtDocPaths(parsed.items) :
          /\ GetAt(parsed.items, p).kind = "expr"
          /\ GetAt(parsed.items, p).kids[1].kind = "block"

(***************************************************************************)
(* C10: sanitize applied to a sanitized file changes nothing.              *)
(***************************************************************************)
C10_SanitizeIdempotent == Sanitized => sanitize(syntax_tree) = syntax_tree

\* sanitize removed a macro and doc attributes from the parsed file.
C10_Witness ==
    /\ Sanitized
    /\ MacroPaths(parsed.items) # {}
    /\ StmtDocPaths(parsed.items) # {}
    /\ syntax_tree # parsed

(***************************************************************************)
(* Vocabulary of the selector claims.                                      *)
(***************************************************************************)
\* The selector has been applied to the sanitized file.
Filtered == item # Absent /\ Sanitized /\ pc # "filter"

\* What the loop of filter leaves once every segment is consumed.
Remaining == enter_segments(<<root_mod(sanitize(parsed).items)>>, item.value)

(***************************************************************************)
(* C11: once the selector is applied, if exactly one item remains after    *)
(* the last segment and it is a module with inline content, the file's     *)
(* items are that module's members in their order; otherwise (no item,     *)
(* several items, one item that is not such a module) the file's items are *)
(* the remaining items themselves.                                         *)
(***************************************************************************)
C11_UnwrapRule ==
    Filtered =>
        IF Len(Remaining) = 1 /\ Remaining[1].kind = "mod"
        THEN syntax_tree.items = Remaining[1].kids
        ELSE syntax_tree.items = Remaining

\* The path ended at one inline module of two different members, and the
\* file holds the two, in their order, without the module.
C11_Witness ==
    /\ Filtered
    /\ Len(Remaining) = 1 /\ Remaining[1].kind = "mod"
    /\ Len(Remaining[1].kids) = 2
    /\ Remaining[1].kids[1] # Remaining[1].kids[2]
    /\ syntax_tree.items = Remaining[1].kids

(***************************************************************************)
(* C12: when the path leads into one trait, what remains after its last    *)
(* segment is, in their order, the members of the trait of that name that  *)
(* have a default (a method with a body, a constant with a value, an       *)
(* associated type with a type), each as an item of the same kind, name,   *)
(* attributes and body; a member without a default is not among them, and  *)
(* when no member of that name has a default the selection is empty.       *)
(***************************************************************************)
\* The items entered before the last segment of the path is looked up.
Parents == enter_segments(<<root_mod(sanitize(parsed).items)>>,
                          SubSeq(item.value, 1, Len(item.value) - 1))

LastSegment == item.value[Len(item.value)]

\* The members of that name with a default, as items.
Defaulted(trait) ==
    LET members == SelectSeq(trait.kids,
                             LAMBDA m : /\ m.name = LastSegment
                                        /\ m.kind \in {"fn", "const", "type"})
    IN  [k \in DOMAIN members |-> [members[k] EXCEPT !.cat = "item"]]

C12_TraitDefaulting ==
    (Filtered /\ Len(Parents) = 1 /\ Parents[1].kind = "trait") =>
        /\ Remaining = Defaulted(Parents[1])
        /\ Defaulted(Parents[1]) = <<>> => syntax_tree.items = <<>> /\ pc = "no_such_item"

\* The trait held a method of the name looked up with a statement in its
\* body, and the selection is that method as a function with the statement.
C12_Witness ==
    /\ Filtered /\ Len(Parents) = 1 /\ Parents[1].kind = "trait"
    /\ Len(syntax_tree.items) = 1
    /\ syntax_tree.items[1].cat = "item" /\ syntax_tree.items[1].kind = "fn"
    /\ syntax_tree.items[1].kids # <<>>

(***************************************************************************)
(* C13: after each segment of the path the selection is, in source order,  *)
(* every child of the items selected before it whose name is the segment,  *)
(* whatever its kind; an extern crate with a rename goes by the rename and *)
(* not by its own name; a use, an impl and a foreign block have no name    *)
(* and are never selected.  The file ends up with the last selection       *)
(* unless that is a single item.                                           *)
(***************************************************************************)
\* The selection after the first i segments.
Selection(i) ==
    enter_segments(<<root_mod(sanitize(parsed).items)>>, SubSeq(item.value, 1, i))

\* The children of the items of a list, in source order: the items of an
\* inline module, the members with a default of a trait.
Children(items) ==
    Concat([k \in DOMAIN items |->
              IF items[k].kind = "mod" THEN items[k].kids
              ELSE IF items[k].kind = "trait"
              THEN LET members == SelectSeq(items[k].kids,
                                            LAMBDA m : m.kind \in {"fn", "const", "type"})
                   IN  [j \in DOMAIN members |-> [members[j] EXCEPT !.cat = "item"]]
              ELSE <<>>])

GoesBy(child, segment) ==
    /\ child.kind \notin {"use", "impl", "foreign_mod"}
    /\ IF child.kind = "extern_crate" /\ child.rename # None
       THEN child.rename = segment
       ELSE child.name = segment

C13_ByNameOnly ==
    Filtered =>
        /\ \A i \in 1..Len(item.value) :
              Selection(i) = SelectSeq(Children(Selection(i - 1)),
                                       LAMBDA child : GoesBy(child, item.value[i]))
        /\ Len(Selection(Len(item.value))) # 1 =>
              syntax_tree.items = Selection(Len(item.value))

\* Two items of one name and of different kinds were both selected, with a
\* third of another name between them left out.
C13_Witness ==
    /\ Filtered
    /\ Len(sanitize(parsed).items) = 3
    /\ Len(syntax_tree.items) = 2
    /\ syntax_tree.items[1] = sanitize(parsed).items[1]
    /\ syntax_tree.items[2] = sanitize(parsed).items[3]
    /\ syntax_tree.items[1].kind # syntax_tree.items[2].kind

(***************************************************************************)
(* C14: when the selector has been applied and the file is left without    *)
(* items, the run has ended there: the warning "no such item" with the     *)
(* path is the one line on standard error, the status is 1, the renderer   *)
(* was never called, the panic hook was never touched, nothing was written *)
(* to standard output, and no step follows.                                *)
(***************************************************************************)
C14_NoSuchItem ==
    (Filtered /\ syntax_tree.items = <<>>) =>
        /\ pc = "no_such_item"
        /\ stderr = <<<<"WARNING: no such item: ", Display(item.value)>>>>
        /\ exit_code = 1
        /\ events = <<>>
        /\ result = Unset /\ redacted = Unset
        /\ hook = "entry_hook" /\ original_hook = None
        /\ stage = "QuestionablyFormatted"
        /\ stdout = <<>>
        /\ ~ENABLED Next

\* A file with items, none of them at the path given, ended the run with
\* the warning.
C14_Witness ==
    /\ pc = "no_such_item"
    /\ sanitize(parsed).items # <<>>
    /\ Len(item.value) = 2
    /\ syntax_tree.items = <<>>
    /\ exit_code = 1

(***************************************************************************)
(* C15: once the selector has been applied, whether or not it selected     *)
(* anything, the file has no shebang and no inner attributes, and its      *)
(* items are exactly the selection made in the sanitized file.             *)
(***************************************************************************)
C15_HeaderCleared ==
    Filtered =>
        /\ syntax_tree.shebang = None
        /\ syntax_tree.attrs = <<>>
        /\ syntax_tree.items = apply_to(sanitize(parsed), item.value)

\* A file with a shebang and an inner attribute lost both to a selector
\* that selected one of its items.
C15_Witness ==
    /\ Filtered
    /\ parsed.shebang # None /\ parsed.attrs # <<>>
    /\ syntax_tree.shebang = None /\ syntax_tree.attrs = <<>>
    /\ syntax_tree.items # <<>>
    /\ syntax_tree.items # parsed.items

(***************************************************************************)
(* C16: from_str gives a Filter for a string exactly when the string is a  *)
(* path, one or more identifiers with "::" between them; for the empty     *)
(* string, and for any string with an empty piece or a piece that is not   *)
(* an identifier, it gives an error and no Filter.  A Filter it gives has  *)
(* at least one segment, no segment is empty, and the segments written     *)
(* with "::" between them are the string.  So args.item, when there is     *)
(* one, has at least one segment and no empty segment, and a run whose     *)
(* ITEM is rejected has no args.item and ends with an error message.       *)
(***************************************************************************)
\* s is one or more runs of identifier characters with "::" between them.
IsPath(s) ==
    /\ s # <<>>
    /\ \A i \in DOMAIN s : s[i] \in {"a", "b", ":"}
    /\ s[1] # ":" /\ s[Len(s)] # ":"
    /\ \A i \in DOMAIN s :
          s[i] = ":" => \/ s[i - 1] # ":" /\ s[i + 1] = ":" /\ s[i + 2] # ":"
                        \/ s[i - 1] = ":" /\ s[i - 2] # ":" /\ s[i + 1] # ":"

C16_EmptyRejected ==
    /\ ~from_str(<<>>).ok
    /\ arg # Absent =>
          LET parsed_filter == from_str(arg.value)
          IN  /\ parsed_filter.ok <=> IsPath(arg.value)
              /\ parsed_filter.ok =>
                    /\ Len(parsed_filter.segments) >= 1
                    /\ \A i \in DOMAIN parsed_filter.segments : parsed_filter.segments[i] # ""
                    /\ Display(parsed_filter.segments) = Str(arg.value)
              /\ ~parsed_filter.ok => DOMAIN parsed_filter = {"ok", "err"}
    /\ item # Absent =>
          /\ Len(item.value) >= 1
          /\ \A i \in DOMAIN item.value : item.value[i] # ""
    /\ pc = "usage_error" =>
          /\ item = Absent
          /\ Len(stderr) = 1
          /\ exit_code = 2

\* The empty string given as ITEM was rejected.
C16_Witness ==
    /\ pc = "usage_error"
    /\ arg = Some(<<>>)
    /\ item = Absent
    /\ stderr = <<<<"error", "", "is not an identifier">>>>

(***************************************************************************)
(* C17: for a string p that does not start with "::", parse_selector gives *)
(* for "::" followed by p what it gives for p, the same Filter or the same *)
(* error; and a run given one of the two as ITEM has the args.item, or the *)
(* error message and status, that the other gives.                         *)
(***************************************************************************)
\* What a run has after its arguments are parsed, from what parse_selector
\* returned.
OutcomeOf(parsed_item) ==
    IF parsed_item.ok
    THEN [item |-> Some(parsed_item.segments), stderr |-> <<>>, exit_code |-> None]
    ELSE [item |-> Absent, stderr |-> <<<<"error">> \o parsed_item.err>>, exit_code |-> 2]

\* The ITEM argument with its leading "::" taken off or put on.
Twin(s) ==
    IF starts_with(s, <<":", ":">>) THEN SubSeq(s, 3, Len(s)) ELSE <<":", ":">> \o s

C17_LeadingColons ==
    (/\ arg # Absent
     /\ ~starts_with(arg.value, <<":", ":", ":", ":">>)) =>
        /\ parse_selector(Twin(arg.value)) = parse_selector(arg.value)
        /\ pc \in {"check_args", "usage_error"} =>
              [item |-> item, stderr |-> stderr, exit_code |-> exit_code]
                  = OutcomeOf(parse_selector(Twin(arg.value)))

\* A run given "::a::a" went on with the Filter of a::a.
C17_Witness ==
    /\ pc = "check_args"
    /\ arg = Some(<<":", ":", "a", ":", ":", "a">>)
    /\ item = Some(<<"a", "a">>)
    /\ parse_selector(<<"a", ":", ":", "a">>) = [ok |-> TRUE, segments |-> <<"a", "a">>]

(***************************************************************************)
(* C18, as the code has it: ignore_panic ends with the fatal "race         *)
(* condition on std::panic hook" exactly when the hook it takes back at    *)
(* line 660 is not the null hook it set at line 656, that is when another  *)
(* thread called take_hook or set_hook after line 656 and before line 660  *)
(* and the last such call left a hook other than the null hook in place.   *)
(* A call made between lines 655 and 656, or between lines 660 and 661, is *)
(* overwritten by the set_hook that follows and goes unnoticed.            *)
(***************************************************************************)
\* The calls of other threads made while the null hook was meant to be in
\* place: after set_hook(null_hook), before the take_hook of line 660.
DuringAttempt ==
    SelectSeq(others, LAMBDA call : call.at \in {"unparse_maximal", "fold", "take_back"})

\* ignore_panic is past the take_hook of line 660.
TakenBack == pc \in {"restore", "sanity_check", "fatal", "returned", "staged", "content", "done"}

C18_DetectedAtTakeBack ==
    /\ TakenBack =>
          hopefully_null_hook = IF DuringAttempt = <<>> THEN "null_hook"
                                ELSE DuringAttempt[Len(DuringAttempt)].installed
    /\ pc = "fatal" => hopefully_null_hook # "null_hook"
    /\ pc \in {"returned", "staged", "content", "done"} => hopefully_null_hook = "null_hook"

\* Another thread set a hook of its own during the fold, and ignore_panic
\* ended with the fatal condition.
C18_Witness ==
    /\ pc = "fatal"
    /\ Len(others) = 1
    /\ others[1].at = "fold" /\ others[1].op = "set"
    /\ hopefully_null_hook = "other_hook"

(***************************************************************************)
(* C18, as stated: if another thread replaces the panic hook at any point  *)
(* between ignore_panic saving the previous hook and restoring it, then    *)
(* ignore_panic does not return a result.                                  *)
(***************************************************************************)
C18_AnyReplacementIsFatal ==
    pc \in {"returned", "staged", "content", "done"} =>
        \A i \in DOMAIN others : others[i].op \notin {"set", "take"}

(***************************************************************************)
(* C19: in a run without other threads, from the line after                *)
(* set_hook(original_hook) on, whether the closure returned or panicked    *)
(* and whether ignore_panic returns or ends with the fatal condition, the  *)
(* panic hook of the process is the hook that was in place when            *)
(* ignore_panic was entered; while ignore_panic runs that hook is kept in  *)
(* original_hook.                                                          *)
(***************************************************************************)
\* ignore_panic is past set_hook(original_hook): at its sanity check, or out
\* of it by its return or by the fatal condition.
Exited == pc \in {"sanity_check", "fatal", "returned", "staged", "content", "done"}

C19_HookRestored ==
    /\ BetweenSaveAndRestore => original_hook = "entry_hook"
    /\ Exited => hook = "entry_hook"
    /\ pc \in BeforeSanitize \cup {"filter", "no_such_item", "ignore_panic"} =>
          hook = "entry_hook"

\* The closure panicked, ignore_panic returned the error, and the hook of
\* the entry is in place.
C19_Witness ==
    /\ pc = "returned"
    /\ ~result.ok
    /\ hopefully_null_hook = "null_hook"
    /\ hook = "entry_hook"

(***************************************************************************)
(* C20: the selector is applied to the sanitized file and to nothing else; *)
(* the renderer (ignore_panic, unparse_maximal and every call of the       *)
(* render primitive) runs only once the file is the sanitized file, or,    *)
(* with an ITEM, the selection made in the sanitized file, and the file    *)
(* does not change from then on; before that nothing is rendered.          *)
(***************************************************************************)
\* sanitize and the selector, if there is one, are still to run or the run
\* ended before the renderer.
BeforeRenderer ==
    pc \in BeforeSanitize \cup {"filter", "no_such_item"}

\* The file the renderer is to be given.
SanitizedAndNarrowed ==
    IF item = Absent THEN sanitize(parsed)
    ELSE File(None, <<>>, apply_to(sanitize(parsed), item.value))

C20_StageOrdering ==
    /\ [](pc = "filter" => syntax_tree = sanitize(parsed))
    /\ [](BeforeRenderer =>
            /\ events = <<>>
            /\ redacted = Unset /\ result = Unset
            /\ hook = "entry_hook" /\ original_hook = None)
    /\ [](~BeforeRenderer => syntax_tree = SanitizedAndNarrowed)
    /\ [][events' # events => /\ ~BeforeRenderer
                              /\ syntax_tree = SanitizedAndNarrowed
                              /\ syntax_tree' = syntax_tree]_vars

\* A file with a macro_rules item and another item of the same name was
\* rendered after the selector had picked the one that sanitize left.
C20_Witness ==
    /\ pc = "done"
    /\ item # Absent
    /\ events # <<>>
    /\ sanitize(parsed) # parsed
    /\ \E k \in DOMAIN parsed.items :
          /\ parsed.items[k].kind = "macro"
          /\ parsed.items[k].name = item.value[1]
    /\ Len(syntax_tree.items) = 1
    /\ apply_to(parsed, item.value) # syntax_tree.items

(***************************************************************************)
(* C21, as the code has it: the program has no operation that removes      *)
(* implementation blocks.  sanitize, its one operation on the parsed file, *)
(* keeps every impl block, marked automatically_derived or not, at any     *)
(* depth and in order; a file without macro_rules items is left as it is.  *)
(***************************************************************************)
RECURSIVE ImplsOf(_)

\* The impl blocks of a list of nodes, at any depth, in source order.
ImplsOf(nodes) ==
    Concat([k \in DOMAIN nodes |->
              IF nodes[k].kind = "impl" THEN <<nodes[k]>> ELSE ImplsOf(nodes[k].kids)])

IsMarked(block) ==
    \E a \in DOMAIN block.attrs : block.attrs[a] = "automatically_derived"

MaxPathLen == 1

Paths0 == UNION { [1..l -> {"/", "a"}] : l \in 0..MaxPathLen }

NotUnicode == [some |-> TRUE, unicode |-> FALSE]

EnvValues == {Absent, NotUnicode} \cup { Some(path) : path \in Paths0 }

HomeDirs == { <<"/">>, <<"/", "h">> }

\* std::env::var(env_var).ok()
env_var(name) ==
    IF world.env[name] = Absent \/ world.env[name] = NotUnicode THEN Absent
    ELSE world.env[name]

\* Path::is_absolute, on Unix: the path has a root.
is_absolute(path) == path # <<>> /\ Head(path) = "/"

\* Path::join: an absolute path replaces the base, anything else is pushed
\* after a separator, which is added when the base does not end in one.
join(base, path) ==
    IF is_absolute(path) THEN path
    ELSE IF base = <<>> \/ base[Len(base)] = "/" THEN base \o path
    ELSE base \o <<"/">> \o path

env_var_or_none_any(name) == env_var(name)

env_var_or_none(name) ==
    LET path == env_var(name)
    IN  IF path # Absent /\ is_absolute(path.value) THEN path ELSE Absent

env_var_or_default(home_dir, name, default) ==
    LET path == env_var_or_none(name)
    IN  IF path # Absent THEN path.value ELSE join(home_dir, default)

config_dir(home_dir) == env_var_or_default(home_dir, "XDG_CONFIG_HOME", <<".config", "/">>)

data_dir(home_dir) == env_var_or_default(home_dir, "XDG_DATA_HOME", <<".local", "/", "share", "/">>)

cache_dir(home_dir) == env_var_or_default(home_dir, "XDG_CACHE_HOME", <<".cache", "/">>)

state_dir(home_dir) ==
    Some(env_var_or_default(home_dir, "XDG_STATE_HOME", <<".local", "/", "state", "/">>))

runtime_dir == env_var_or_none("XDG_RUNTIME_DIR")

\* src/assets.rs, mod xdg: the cache directory, resolved by the same rule.
xdg_cache_dir(home_dir) == env_var_or_default(home_dir, "XDG_CACHE_HOME", <<".cache", "/">>)

\* The strategy is asked for each of its directories, as in the example of
\* src/etcetera/base_strategy/xdg.rs 116-155.
XdgDirs ==
    /\ dirs = Unset
    /\ dirs' = [config |-> config_dir(world.home), data |-> data_dir(world.home),
                cache |-> cache_dir(world.home), state |-> state_dir(world.home),
                runtime |-> runtime_dir, assets_cache |-> xdg_cache_dir(world.home)]
    /\ UNCHANGED <<pc, parsed, syntax_tree, hook, original_hook, hopefully_null_hook,
                   redacted, stack, result, events, stage, io, others, world, calls>>

InitXdg ==
    /\ Entry
    /\ arg = Absent
    /\ parsed = File(None, <<>>, <<>>)
    /\ syntax_tree = parsed
    /\ \E home_dir \in HomeDirs : \E env \in [XdgVars -> EnvValues] :
          world = [DefaultWorld EXCEPT !.home = home_dir, !.env = env]

NextXdg ==
    \/ XdgDirs

SpecXdg == InitXdg /\ [][NextXdg]_vars

\* The variable holds an absolute path.
Overrides(name) ==
    /\ world.env[name] \notin {Absent, NotUnicode}
    /\ world.env[name].value # <<>>
    /\ world.env[name].value[1] = "/"

\* dir is default under the home directory.
HomeRelative(dir, default) ==
    /\ starts_with(dir, world.home)
    /\ Len(dir) >= Len(default)
    /\ SubSeq(dir, Len(dir) - Len(default) + 1, Len(dir)) = default
    /\ \/ Len(dir) = Len(world.home) + Len(default)
       \/ /\ Len(dir) = Len(world.home) + Len(default) + 1
          /\ dir[Len(world.home) + 1] = "/"

Resolved(dir, name, default) ==
    IF Overrides(name) THEN dir = world.env[name].value ELSE HomeRelative(dir, default)

\* C22: each of the config, data, cache and state directories is the value
\* of its XDG variable when that is an absolute path and the default under
\* the home directory when the variable is unset, not unicode or relative;
\* the runtime directory is the value of XDG_RUNTIME_DIR when that is an
\* absolute path and None otherwise.
C22_RelativeOverridesIgnored ==
    dirs # Unset =>
        /\ Resolved(dirs.config, "XDG_CONFIG_HOME", <<".config", "/">>)
        /\ Resolved(dirs.data, "XDG_DATA_HOME", <<".local", "/", "share", "/">>)
        /\ Resolved(dirs.cache, "XDG_CACHE_HOME", <<".cache", "/">>)
        /\ Resolved(dirs.assets_cache, "XDG_CACHE_HOME", <<".cache", "/">>)
        /\ dirs.state.some
        /\ Resolved(dirs.state.value, "XDG_STATE_HOME", <<".local", "/", "state", "/">>)
        /\ dirs.runtime = IF Overrides("XDG_RUNTIME_DIR") THEN world.env["XDG_RUNTIME_DIR"]
                          ELSE Absent

\* The directories are resolved with one variable absolute, one relative,
\* one empty, one not unicode and the runtime directory relative.
C22_Witness ==
    /\ dirs # Unset
    /\ world.env["XDG_CONFIG_HOME"] = Some(<<"/">>)
    /\ world.env["XDG_DATA_HOME"] = Some(<<"a">>)
    /\ world.env["XDG_CACHE_HOME"] = Some(<<>>)
    /\ world.env["XDG_STATE_HOME"] = NotUnicode
    /\ world.env["XDG_RUNTIME_DIR"] = Some(<<"a">>)
    /\ dirs.runtime = Absent

(***************************************************************************)
(* C23.  What a fold method hands back.                                    *)
(***************************************************************************)
\* The fold method called on the node at path p has just returned: its
\* first attempt succeeded, or it made its second attempt.
JustReturned(p) ==
    /\ events # <<>>
    /\ events[Len(events)].path = p
    /\ \/ events[Len(events)].ev = "first" /\ events[Len(events)].ok
       \/ events[Len(events)].ev = "second"

\* n renders inside the smallest file that can hold a node of its category.
RendersInWrapper(n) ==
    ~(\/ NodePanics(n)
      \/ \E k \in DOMAIN WrapperFile(n).items : WrapperFile(n).items[k].bad)

\* C23: the node a fold method returns renders without panic inside the
\* minimal wrapper of its category, whichever of the three ways it returns
\* (first attempt, second attempt, placeholder); so each item of the file
\* handed to the final prettyplease::unparse renders without panic as the
\* only item of a file without attributes.
C23_FoldPostcondition ==
    /\ \A p \in Paths(syntax_tree.items) :
          (pc = "fold" /\ JustReturned(p)) =>
              /\ p \in Paths(redacted.items)
              /\ RendersInWrapper(GetAt(redacted.items, p))
    /\ (FoldRan /\ \E ok \in BOOLEAN : HasEvent("final", <<>>, ok)) =>
          \A k \in DOMAIN redacted.items :
              ~unparse_panics(File(None, <<>>, <<redacted.items[k]>>))

\* The final render was handed a file in which one fold method had returned
\* its node after the second attempt and another had returned a placeholder.
C23_Witness ==
    /\ RenderOver /\ FoldRan
    /\ \E p, q \in Paths(syntax_tree.items) :
          /\ HasEvent("second", p, TRUE)
          /\ HasEvent("second", q, FALSE)
          /\ p \in Paths(redacted.items)
          /\ GetAt(redacted.items, p).kind # "ellipsis"

(***************************************************************************)
(* C24.  Paths that go through something that cannot be entered.           *)
(***************************************************************************)
\* What the first k segments of the path lead to.
MatchedBy(k) == enter_segments(<<root_mod(sanitize(parsed).items)>>, SubSeq(item.value, 1, k))

\* A declaration the selector can go into: a module with inline content, a trait.
IsContainer(d) == d.kind \in {"mod", "trait"}

\* C24: for a path of two or more segments, if everything that a proper
\* prefix of the path leads to is a declaration that is neither a module
\* with inline content nor a trait, the selection is empty and the run ends
\* with the warning.
C24_NonContainersEndThePath ==
    (/\ Filtered
     /\ Len(item.value) >= 2
     /\ \E k \in 1..(Len(item.value) - 1) :
           \A d \in DOMAIN MatchedBy(k) : ~IsContainer(MatchedBy(k)[d]))
    => /\ syntax_tree.items = <<>>
       /\ pc = "no_such_item"

\* The first segment led to a module without inline content of the name the
\* second segment asks for, and the run ended with the warning.
C24_Witness ==
    /\ Filtered
    /\ Len(item.value) = 2
    /\ item.value[1] = item.value[2]
    /\ Len(MatchedBy(1)) = 1
    /\ MatchedBy(1)[1].kind = "mod_semi"
    /\ pc = "no_such_item"

(***************************************************************************)
(* C25.  The fatal condition of ignore_panic.                              *)
(***************************************************************************)
\* C25: when ignore_panic ends with the fatal condition, the hook that was
\* in place when it was entered is installed again, so the panic is
\* reported by that hook and not by the null hook; the panic is raised
\* after catch_unwind returned, whatever the closure returned, and is not
\* turned into a result: the stage is not set, nothing is written, no
\* status is returned and the run goes no further.
C25_FatalNotAbsorbed ==
    /\ pc \in {"sanity_check", "fatal"} =>
          /\ hook = original_hook
          /\ hook = "entry_hook"
          /\ result # Unset
    /\ pc = "fatal" =>
          /\ hopefully_null_hook # "null_hook"
          /\ stage = "QuestionablyFormatted"
          /\ stdout = <<>> /\ stderr = <<>>
          /\ exit_code = None
          /\ ~ENABLED Next

\* The closure had returned a text, and a hook set by another thread during
\* the render still ended the run with the fatal condition.
C25_Witness ==
    /\ pc = "fatal"
    /\ result.ok
    /\ hopefully_null_hook = "other_hook"
    /\ hook = "entry_hook"

(***************************************************************************)
(* C26.  rustfmt = true in the configuration.                              *)
(***************************************************************************)
\* The runs of a command so far.
CallsOf(cmd) == SelectSeq(calls, LAMBDA call : call.cmd = cmd)

\* unparse_maximal has not been called: nothing was rendered, ignore_panic
\* was not entered.
NeverRendered ==
    /\ events = <<>>
    /\ result = Unset /\ redacted = Unset
    /\ hook = "entry_hook" /\ original_hook = None
    /\ pc \notin {"ignore_panic", "set_hook", "unparse_maximal", "fold", "take_back", "restore",
                  "sanity_check", "fatal", "returned"}

\* rustfmt = true and which_rustfmt found nothing: status 1, and cargo was
\* not run.
MissingEndsBeforeCargo ==
    (world.rustfmt /\ \E c \in DOMAIN calls : calls[c] = [cmd |-> "which_rustfmt", found |-> FALSE])
    => /\ pc = "rustfmt_missing"
       /\ exit_code = 1
       /\ CallsOf("cargo") = <<>>
       /\ stdout = <<>>
       /\ ~ENABLED Next

\* rustfmt = false and unparse_maximal returned a text: rustfmt is neither
\* looked for nor run.
FormattedNeedsNoRustfmt ==
    (~world.rustfmt /\ result # Unset /\ result.ok)
    => CallsOf("rustfmt") = <<>> /\ CallsOf("which_rustfmt") = <<>>

\* C26, as amended: with rustfmt = true, unparse_maximal is never called;
\* when syn::parse_file accepts the expanded source, each run of rustfmt is
\* given the tokens of the sanitized file, narrowed to the ITEM if there is
\* one, and when syn::parse_file rejects it, each run of rustfmt is given
\* the whole source with $crate replaced.  With rustfmt = true and no
\* rustfmt found the run ends with status 1 before cargo is run.  With
\* rustfmt = false, once unparse_maximal has returned a text rustfmt is not
\* run.
C26_RustfmtByConfiguration ==
    /\ world.rustfmt =>
          /\ NeverRendered
          /\ \A c \in DOMAIN CallsOf("rustfmt") :
                CallsOf("rustfmt")[c].input
                    = IF world.parses THEN quote(SanitizedAndNarrowed) ELSE wip
    /\ MissingEndsBeforeCargo
    /\ FormattedNeedsNoRustfmt

\* With rustfmt = true, one member of a module went to rustfmt, without the
\* module, and the output of rustfmt was written.
C26_Witness ==
    /\ pc = "done"
    /\ world.rustfmt /\ world.parses
    /\ item # Absent
    /\ CallsOf("rustfmt") # <<>>
    /\ CallsOf("rustfmt")[1].input # wip
    /\ CallsOf("rustfmt")[1].input = quote(File(None, <<>>, parsed.items[1].kids))
    /\ stdout[1].from = "rustfmt"

\* C26, as stated: with rustfmt = true, unparse_maximal is never called and
\* what rustfmt is given is the sanitized, narrowed file; (the other two
\* parts as above).
C26_AlwaysSanitizedToRustfmt ==
    /\ world.rustfmt =>
          /\ NeverRendered
          /\ \A c \in DOMAIN CallsOf("rustfmt") :
                CallsOf("rustfmt")[c].input = quote(SanitizedAndNarrowed)
    /\ MissingEndsBeforeCargo
    /\ FormattedNeedsNoRustfmt

(***************************************************************************)
(* C27.  What is written when an ITEM is given.                            *)
(***************************************************************************)
\* The text of the selection made in the sanitized file, as the run writes
\* a formatted text.
SelectionText == replace(quote(SanitizedAndNarrowed), DOLLAR_CRATE_PLACEHOLDER, "$crate")

\* C27: in a run with an ITEM that ends with status 0, the text written is
\* the text of the selection, whether syn::parse_file accepts the expanded
\* source or not and whether rustfmt succeeds or not; it is never the text
\* of the whole source.
C27_SelectorNeverIgnored ==
    (item # Absent /\ pc = "done" /\ exit_code = 0) =>
        /\ Len(stdout) = 1
        /\ stdout[1].text = SelectionText

(***************************************************************************)
(* C28.  No 'no such item' for a path that leads to a declaration.         *)
(***************************************************************************)
\* C28: when the path leads to at least one declaration of the sanitized
\* file, be it an inline module without members, the run does not end with
\* the warning 'no such item'.
C28_NoFalseNoSuchItem ==
    (Filtered /\ Remaining # <<>>) => pc # "no_such_item"

(***************************************************************************)
(* C29.  What sanitize leaves alone.                                       *)
(***************************************************************************)
RECURSIVE Erase(_)

NoDoc(attrs) == SelectSeq(attrs, LAMBDA a : a # "doc")

\* n without anything sanitize is said to remove: the macro items of item
\* lists and of statement lists, the doc attributes of local, expression and
\* macro statements.
Erase(n) ==
    LET kept == CASE KidCat(n.cat, n.kind) = "item" /\ n.cat = "item" ->
                        SelectSeq(n.kids, LAMBDA k : ~(k.cat = "item" /\ k.kind = "macro"))
                  [] KidCat(n.cat, n.kind) = "stmt" ->
                        SelectSeq(n.kids, LAMBDA k : ~(/\ k.kind = "item"
                                                       /\ k.kids[1].cat = "item"
                                                       /\ k.kids[1].kind = "macro"))
                  [] OTHER -> n.kids
        kids == [k \in DOMAIN kept |->
                    IF n.cat = "stmt" /\ n.kind = "expr"
                    THEN [Erase(kept[k]) EXCEPT !.attrs = NoDoc(@)]
                    ELSE Erase(kept[k])]
    IN  [n EXCEPT !.kids = kids,
                  !.attrs = IF n.cat = "stmt" /\ n.kind \in {"local", "macro"}
                            THEN NoDoc(@) ELSE @]

EraseFile(file) == [file EXCEPT !.items = Erase(root_mod(file.items)).kids]

RECURSIVE DocsOnItems(_)

\* How many doc attributes sit on items, at any depth.
DocsOnItems(nodes) ==
    IF nodes = <<>> THEN 0
    ELSE (IF Head(nodes).cat = "item" THEN Len(Head(nodes).attrs) - Len(NoDoc(Head(nodes).attrs))
          ELSE 0)
         + DocsOnItems(Head(nodes).kids) + DocsOnItems(Tail(nodes))

\* C29: edit::sanitize always returns, and apart from the macro items it
\* drops from item lists and statement lists and the doc attributes it
\* drops from local, expression and macro statements it leaves every node
\* and every attribute where it was, in the order it was: the shebang and
\* the inner attributes, the doc attributes on items, the other attributes
\* on statements.
C29_SanitizeRemovesNothingElse ==
    /\ pc = "sanitize" => ENABLED Sanitize
    /\ Sanitized =>
          /\ EraseFile(syntax_tree) = EraseFile(parsed)
          /\ syntax_tree.shebang = parsed.shebang /\ syntax_tree.attrs = parsed.attrs
          /\ DocsOnItems(syntax_tree.items) = DocsOnItems(EraseFile(parsed).items)

\* sanitize changed a file and left a function with its doc attribute and a
\* statement of it with its inline attribute.
C29_Witness ==
    /\ Sanitized
    /\ syntax_tree # parsed
    /\ \E i \in DOMAIN syntax_tree.items :
          /\ syntax_tree.items[i].kind = "fn"
          /\ syntax_tree.items[i].attrs = <<"doc">>
          /\ \E k \in DOMAIN syntax_tree.items[i].kids :
                syntax_tree.items[i].kids[k].attrs = <<"inline">>

(***************************************************************************)
(* C30.  The placeholder of $crate.                                        *)
(***************************************************************************)
Holds(text, token) == \E i \in DOMAIN text : text[i] = token

\* rustfmt was run with the editions in their order, from the first on, and
\* no more after a run that succeeded.
EditionsInOrder ==
    LET runs == CallsOf("rustfmt")
    IN  /\ Len(runs) <= Len(Editions)
        /\ \A r \in DOMAIN runs :
              /\ runs[r].edition = Editions[r]
              /\ runs[r].ok => r = Len(runs)

\* C30: when the expanded source does not hold the placeholder, what is
\* written does not hold it either, whether the text was formatted by
\* prettyplease, by rustfmt with the edition 2021, 2018 or 2015, tried in
\* that order, or by neither; and when no formatter succeeded what is
\* written is the expanded source as cargo left it.
C30_PlaceholderNeverLeaks ==
    /\ EditionsInOrder
    /\ (pc = "done" /\ ~Holds(questionably_formatted, DOLLAR_CRATE_PLACEHOLDER)) =>
          /\ Len(stdout) = 1
          /\ ~Holds(stdout[1].text, DOLLAR_CRATE_PLACEHOLDER)
          /\ stdout[1].from = "prettyplease" <=> (result # Unset /\ result.ok)
          /\ stdout[1].from = "rustfmt" <=>
                \E c \in DOMAIN calls : calls[c].cmd = "rustfmt" /\ calls[c].ok
          /\ stdout[1].from = "rustc" => stdout[1].text = questionably_formatted

\* The source held $crate, rustfmt failed with the editions 2021 and 2018
\* and succeeded with 2015, and what was written holds $crate again.
C30_Witness ==
    /\ pc = "done"
    /\ ~Holds(questionably_formatted, DOLLAR_CRATE_PLACEHOLDER)
    /\ Holds(questionably_formatted, "$crate")
    /\ Len(CallsOf("rustfmt")) = 3
    /\ stdout[1].from = "rustfmt"
    /\ Holds(stdout[1].text, "$crate")

====
